---- MODULE Spec2Model ----
(***************************************************************************)
(* Revamp-Gnosis: the per-symbol streaming analytics pipeline              *)
(* (app/features, app/engine), the worker loop that drives it              *)
(* (app/worker.py) and the WebSocket connection manager it broadcasts      *)
(* through (app/api/main.py).                                              *)
(*                                                                         *)
(* Number representation.                                                  *)
(*  - Prices are positive integers that are powers of two, so that         *)
(*    np.log(price) is an integer multiple of ln 2: log prices and log     *)
(*    returns are integers in units of ln 2.                               *)
(*  - A rational is a pair <<num, den>> with den > 0, kept in lowest       *)
(*    terms (Norm).                                                        *)
(*  - A square root is never evaluated: a standard deviation, a band       *)
(*    width or sigma is carried as its square (a rational), and compared   *)
(*    through squares.                                                     *)
(*  - Where only IEEE-754 finiteness matters (np.log of a non-positive     *)
(*    number, kernel sums, the JSON encoding) a float is carried as its    *)
(*    class: "fin", "pinf", "ninf" or "nan".                               *)
(***************************************************************************)
EXTENDS Integers, Sequences, FiniteSets, TLC

VARIABLES
    wpc,        \* worker: the await it is suspended at, or "dead" / "hung"
    cyc,        \* worker: number of the current pass of `while True`
    si,         \* worker: index into the processors dict of the current symbol
    procs,      \* symbol -> SymbolProcessor state
    tick,       \* locals of SymbolProcessor.process kept across its awaits
    state,      \* the MarketState process returned (<<>> if none yet)
    db,         \* rows committed through the session, in commit order
    msg,        \* the message being broadcast
    bidx,       \* position of ConnectionManager.broadcast's list iterator
    connection, \* broadcast's loop variable: the socket being sent to
    active_connections,  \* ConnectionManager.active_connections
    cpc,        \* client -> state of its websocket and handler
    csym,       \* client -> the {symbol} of the path it connected to
    inbox,      \* client -> the messages its socket received from the
                \* broadcast in progress (or the last one), in order
    exc,        \* what ended or skipped the worker's last step
    tick_pre,   \* the symbol whose tick began last, with its processor and the
                \* number of committed rows as they were when it began
    fwd_in,     \* ForwardMap.compute: the arguments and settings of the last call
    fwd_out,    \* ForwardMap.compute: what the call returned (<<>> before it)
    obj,        \* a component driven on its own: the fields of the object
    args,       \* ... the arguments of the last call of its method
    out,        \* ... what that call returned (<<>> before the first call)
    hist        \* ... the arguments of the earlier calls it has served

vars == <<wpc, cyc, si, procs, tick, state, db, msg, bidx, connection,
          active_connections, cpc, csym, inbox, exc, tick_pre, fwd_in, fwd_out,
          obj, args, out, hist>>

workerVars == <<wpc, cyc, si, procs, tick, state, db, msg, bidx, connection,
                exc, tick_pre>>
clientVars == <<active_connections, cpc, csym, inbox>>
fwdVars == <<fwd_in, fwd_out>>
unitVars == <<obj, args, out, hist>>

-----------------------------------------------------------------------------
(* Arithmetic helpers *)

Abs(x) == IF x < 0 THEN -x ELSE x

Max2(a, b) == IF a >= b THEN a ELSE b

Min2(a, b) == IF a <= b THEN a ELSE b

RECURSIVE GCD(_, _)
GCD(a, b) == IF b = 0 THEN a ELSE GCD(b, a % b)

\* A rational in lowest terms, with a positive denominator.
Norm(q) ==
    LET g == GCD(Abs(q[1]), q[2])
    IN  IF q[1] = 0 THEN <<0, 1>> ELSE <<q[1] \div g, q[2] \div g>>

RECURSIVE SumSeq(_)
SumSeq(s) == IF s = <<>> THEN 0 ELSE Head(s) + SumSeq(Tail(s))

RECURSIVE SumSq(_)
SumSq(s) == IF s = <<>> THEN 0 ELSE Head(s) * Head(s) + SumSq(Tail(s))

RECURSIVE MaxSeq(_)
MaxSeq(s) == IF Len(s) = 1 THEN s[1] ELSE Max2(Head(s), MaxSeq(Tail(s)))

RECURSIVE MinSeq(_)
MinSeq(s) == IF Len(s) = 1 THEN s[1] ELSE Min2(Head(s), MinSeq(Tail(s)))

\* collections.deque(maxlen=n).append
DequeAppend(q, x, maxlen) ==
    IF Len(q) < maxlen THEN Append(q, x) ELSE Append(Tail(q), x)

\* np.log of a power of two, in units of ln 2
RECURSIVE Log2(_)
Log2(p) == IF p <= 1 THEN 0 ELSE 1 + Log2(p \div 2)

\* Python's None is <<>>; a present value x is <<x>>.
None == <<>>

Some(x) == <<x>>

-----------------------------------------------------------------------------
(* IEEE-754 classes *)

\* np.log(x), by the sign of x: log of 0 is -inf, log of a negative is nan
LogClass(sign) ==
    IF sign > 0 THEN "fin" ELSE IF sign = 0 THEN "ninf" ELSE "nan"

\* a + b and a * b with b finite: the class of a survives
\* (inf - inf and 0 * inf do not arise here).
AddClass(a, b) ==
    IF a = "nan" \/ b = "nan" THEN "nan"
    ELSE IF a = "fin" THEN b
    ELSE IF b = "fin" \/ b = a THEN a
    ELSE "nan"

\* a / s for a finite s > 0
DivPosClass(a) == a

\* -a
NegClass(a) == IF a = "pinf" THEN "ninf" ELSE IF a = "ninf" THEN "pinf" ELSE a

-----------------------------------------------------------------------------
(* app/features/sigma.py *)

alpha_decay == 120

SigmaInit == [var_t |-> <<0, 1>>, initialized |-> FALSE]

\* update(log_ret) with the first variance weighted like the later ones
SigmaUpdateWeightedFirst(sg, log_ret) ==
    [var_t |-> Norm(<<(alpha_decay - 1) * sg.var_t[1]
                         + 2 * log_ret * log_ret * sg.var_t[2],
                      (alpha_decay + 1) * sg.var_t[2]>>),
     initialized |-> TRUE]

\* The accumulator after update(log_ret); var_t is in units of (ln 2)^2.
\* alpha = 2/(alpha_decay+1), so (1-alpha)*v + alpha*r^2 =
\* ((alpha_decay-1)*v + 2*r^2) / (alpha_decay+1).
SigmaUpdate(sg, log_ret) ==
    IF ~sg.initialized
    THEN [var_t |-> <<log_ret * log_ret, 1>>, initialized |-> TRUE]
    ELSE [var_t |-> Norm(<<(alpha_decay - 1) * sg.var_t[1]
                              + 2 * log_ret * log_ret * sg.var_t[2],
                           (alpha_decay + 1) * sg.var_t[2]>>),
          initialized |-> TRUE]

\* sqrt(v) < min_sigma = 1e-6.  In units of (ln 2)^2 the floor is about
\* 2.1e-12, and a positive variance whose denominator is within MaxVarDen * 121
\* is above 4e-9: only the variance 0 is below the floor.
BelowMinSigma(v) == v[1] <= 0

\* What update returns, max(sqrt(var_t), min_sigma): min_sigma when `floored`,
\* the root of `var` otherwise; finite for every finite var_t >= 0.
SigmaValue(sg) ==
    [var |-> sg.var_t, cls |-> "fin", floored |-> BelowMinSigma(sg.var_t)]

-----------------------------------------------------------------------------
(* app/features/technicals.py: Technicals *)

bb_period == 20

bb_widths_maxlen == 780

squeeze_min_widths == 50

rsi_period == 14

TechInit ==
    [vwap_num |-> 0, vwap_denom |-> 0, bb_prices |-> <<>>, bb_widths |-> <<>>,
     gains |-> <<>>, losses |-> <<>>, prev_price |-> None]

\* q1 < q2 for rationals with positive denominators
RatLess(q1, q2) == q1[1] * q2[2] < q2[1] * q1[2]

\* The Bollinger part of update with the window taken as full one price early
BollingerEarly(prices, price) ==
    LET n  == Len(prices)
        s1 == SumSeq(prices)
        s2 == SumSq(prices)
    IN  IF n >= bb_period - 1
        THEN [mb |-> Norm(<<s1, n>>),
              sd2 |-> Norm(<<n * s2 - s1 * s1, n * n>>),
              width2 |-> IF s1 > 0 THEN Norm(<<16 * (n * s2 - s1 * s1), s1 * s1>>)
                         ELSE <<0, 1>>]
        ELSE [mb |-> <<price, 1>>, sd2 |-> <<0, 1>>, width2 |-> <<0, 1>>]

\* The Bollinger part of update, on the price deque after the append.
\* mb = s1/n; sd2 = sd^2 = (n*s2 - s1^2)/n^2; ub = mb + 2 sd; lb = mb - 2 sd;
\* width2 = bbw^2 = (4 sd / mb)^2 = 16 (n*s2 - s1^2) / s1^2.
Bollinger(prices, price) ==
    LET n  == Len(prices)
        s1 == SumSeq(prices)
        s2 == SumSq(prices)
    IN  IF n >= bb_period
        THEN [mb |-> Norm(<<s1, n>>),
              sd2 |-> Norm(<<n * s2 - s1 * s1, n * n>>),
              width2 |-> IF s1 > 0 THEN Norm(<<16 * (n * s2 - s1 * s1), s1 * s1>>)
                         ELSE <<0, 1>>]
        ELSE [mb |-> <<price, 1>>, sd2 |-> <<0, 1>>, width2 |-> <<0, 1>>]

\* sign of ub = mb + 2 sd and of lb = mb - 2 sd (mb^2 against 4 sd^2)
SignOf(x) == IF x > 0 THEN 1 ELSE IF x < 0 THEN -1 ELSE 0

BBUpperSign(bb) ==
    IF bb.mb[1] >= 0 THEN (IF bb.mb[1] = 0 /\ bb.sd2[1] = 0 THEN 0 ELSE 1)
    ELSE SignOf(4 * bb.sd2[1] * bb.mb[2] * bb.mb[2]
                    - bb.mb[1] * bb.mb[1] * bb.sd2[2])

BBLowerSign(bb) ==
    IF bb.mb[1] <= 0 THEN (IF bb.sd2[1] = 0 THEN SignOf(bb.mb[1]) ELSE -1)
    ELSE SignOf(bb.mb[1] * bb.mb[1] * bb.sd2[2]
                    - 4 * bb.sd2[1] * bb.mb[2] * bb.mb[2])

\* bbw <= np.percentile(widths, 15).  The percentile interpolates linearly
\* between the order statistics lo = floor(0.15 (n-1)) and lo+1; bbw is itself
\* an element of widths, so it is never strictly between the two, and
\* bbw <= percentile exactly when at most lo elements are strictly below it.
AtOrBelowPercentile15(widths, w2) ==
    LET n  == Len(widths)
        lo == (15 * (n - 1)) \div 100
    IN  Cardinality({i \in 1..n : RatLess(widths[i], w2)}) <= lo

\* The normalized RSI without the branch `elif avg_gain > 0`
RsiNormalizedNoGainBranch(gains, losses) ==
    LET G == SumSeq(gains)
        L == SumSeq(losses)
    IN  IF Len(gains) = rsi_period /\ L > 0 THEN Norm(<<G - L, G + L>>)
        ELSE <<0, 1>>

\* The normalized RSI (rsi_val - 50)/50, a rational in [-1, 1].
\* 100 - 100/(1 + G/L) = 100 G/(G+L), so (rsi-50)/50 = (G-L)/(G+L).
RsiNormalized(gains, losses) ==
    LET G == SumSeq(gains)
        L == SumSeq(losses)
    IN  IF Len(gains) = rsi_period
        THEN IF L > 0 THEN Norm(<<G - L, G + L>>)
             ELSE IF G > 0 THEN <<1, 1>> ELSE <<0, 1>>
        ELSE <<0, 1>>

\* update(...) with the VWAP sums started afresh at every call
TechUpdateStateFreshSums(t, price, vol) ==
    LET prices == DequeAppend(t.bb_prices, price, bb_period)
        bb     == Bollinger(prices, price)
        hasPrev == t.prev_price # None
        change == IF hasPrev THEN price - t.prev_price[1] ELSE 0
    IN  [vwap_num   |-> price * vol,
         vwap_denom |-> vol,
         bb_prices  |-> prices,
         bb_widths  |-> DequeAppend(t.bb_widths, bb.width2, bb_widths_maxlen),
         gains      |-> IF hasPrev
                        THEN DequeAppend(t.gains, Max2(change, 0), rsi_period)
                        ELSE t.gains,
         losses     |-> IF hasPrev
                        THEN DequeAppend(t.losses, Max2(-change, 0), rsi_period)
                        ELSE t.losses,
         prev_price |-> Some(price)]

\* update(price, vol): the accumulator afterwards
TechUpdateState(t, price, vol) ==
    LET prices == DequeAppend(t.bb_prices, price, bb_period)
        bb     == Bollinger(prices, price)
        hasPrev == t.prev_price # None
        change == IF hasPrev THEN price - t.prev_price[1] ELSE 0
    IN  [vwap_num   |-> t.vwap_num + price * vol,
         vwap_denom |-> t.vwap_denom + vol,
         bb_prices  |-> prices,
         bb_widths  |-> DequeAppend(t.bb_widths, bb.width2, bb_widths_maxlen),
         gains      |-> IF hasPrev
                        THEN DequeAppend(t.gains, Max2(change, 0), rsi_period)
                        ELSE t.gains,
         losses     |-> IF hasPrev
                        THEN DequeAppend(t.losses, Max2(-change, 0), rsi_period)
                        ELSE t.losses,
         prev_price |-> Some(price)]

\* update(price, vol): the dict it returns
TechUpdateResult(t, price, vol) ==
    LET t2 == TechUpdateState(t, price, vol)
        bb == Bollinger(t2.bb_prices, price)
    IN  [vwap |-> IF t2.vwap_denom > 0 THEN Norm(<<t2.vwap_num, t2.vwap_denom>>)
                  ELSE <<price, 1>>,
         rsi  |-> IF t.prev_price # None THEN RsiNormalized(t2.gains, t2.losses)
                  ELSE <<0, 1>>,
         bb   |-> [mb |-> bb.mb, sd2 |-> bb.sd2, width2 |-> bb.width2,
                   squeeze |-> /\ Len(t2.bb_widths) > squeeze_min_widths
                               /\ AtOrBelowPercentile15(t2.bb_widths, bb.width2)]]

-----------------------------------------------------------------------------
(* app/features/technicals.py: Ichimoku.  Tenkan and kijun are carried    *)
(* doubled, the spans and thick times four, so that all stay integers.    *)

IchiInit ==
    [highs_9 |-> <<>>, lows_9 |-> <<>>, highs_26 |-> <<>>, lows_26 |-> <<>>,
     highs_52 |-> <<>>, lows_52 |-> <<>>, history |-> <<>>]

IchiUpdateState(ic, high, low) ==
    LET h9  == DequeAppend(ic.highs_9, high, 9)
        l9  == DequeAppend(ic.lows_9, low, 9)
        h26 == DequeAppend(ic.highs_26, high, 26)
        l26 == DequeAppend(ic.lows_26, low, 26)
        h52 == DequeAppend(ic.highs_52, high, 52)
        l52 == DequeAppend(ic.lows_52, low, 52)
        tenkan2 == MaxSeq(h9) + MinSeq(l9)
        kijun2  == MaxSeq(h26) + MinSeq(l26)
        span_a4 == tenkan2 + kijun2
        span_b4 == 2 * (MaxSeq(h52) + MinSeq(l52))
    IN  [highs_9 |-> h9, lows_9 |-> l9, highs_26 |-> h26, lows_26 |-> l26,
         highs_52 |-> h52, lows_52 |-> l52,
         history |-> DequeAppend(ic.history, <<span_a4, span_b4>>, 60)]

IchiUpdateResult(ic, high, low, close) ==
    LET ic2   == IchiUpdateState(ic, high, low)
        n     == Len(ic2.history)
        cloud == IF n >= 26 THEN ic2.history[n - 25] ELSE ic2.history[n]
    IN  [tenkan2 |-> MaxSeq(ic2.highs_9) + MinSeq(ic2.lows_9),
         kijun2  |-> MaxSeq(ic2.highs_26) + MinSeq(ic2.lows_26),
         span_a4 |-> cloud[1], span_b4 |-> cloud[2],
         state |-> IF 4 * close > Max2(cloud[1], cloud[2]) THEN 1
                   ELSE IF 4 * close < Min2(cloud[1], cloud[2]) THEN -1 ELSE 0,
         thick4 |-> Abs(cloud[1] - cloud[2])]

-----------------------------------------------------------------------------
(* app/features/liquidity.py.  The grid is carried in eighths:            *)
(* np.arange(min, max + 0.125, step) with min = -4, max = 4, step = 0.25. *)

GridMin8 == -32

GridMax8 == 32

GridStep8 == 2

\* len(np.arange(a, b, step)) = ceil((b - a)/step)
GridLen == ((GridMax8 + 1 - GridMin8) + GridStep8 - 1) \div GridStep8

z_grid == [k \in 1..GridLen |-> GridMin8 + (k - 1) * GridStep8]

\* gaussian_kernel(z_grid - z, bandwidth) at one grid point, by the class of
\* z: exp(-0.5 u^2) is in (0, 1] for a finite u, 0 for u = +-inf, nan for nan.
KernelClass(z) == IF z = "nan" THEN "nan" ELSE "fin"

\* z = (np.log(val) - current_log_price) / sigma, by the sign of val
ZClass(valSign, clp) == DivPosClass(AddClass(LogClass(valSign), NegClass(clp)))

\* The class of L_total at every grid point: each present component adds its
\* weighted kernel to a zero vector.
LTotalClass(clp, components) ==
    LET vw == IF "vwap" \in DOMAIN components
              THEN KernelClass(ZClass(SignOf(components.vwap.price[1]), clp))
              ELSE "fin"
        bb == IF "bb" \in DOMAIN components
              THEN AddClass(KernelClass(ZClass(SignOf(components.bb.mb[1]), clp)),
                   AddClass(KernelClass(ZClass(BBUpperSign(components.bb), clp)),
                            KernelClass(ZClass(BBLowerSign(components.bb), clp))))
              ELSE "fin"
    IN  AddClass(vw, bb)

\* settings.liquidity['weights'], in tenths
liquidity_weights10 == [vwap |-> 10, bb |-> 10]

\* The kernels compute_field adds to L_total, one record per kernel: the key
\* it was read from, the level, its reference price, the product of the group
\* weight and the inner weight (in hundredths) and the bandwidth (in
\* hundredths).  Only the keys 'vwap' and 'bb' are read.
LTotalTerms(components) ==
    (IF "vwap" \in DOMAIN components
     THEN {[key |-> "vwap", level |-> "price", ref |-> components["vwap"].price,
            w100 |-> liquidity_weights10.vwap * 10, bw100 |-> 35]}
     ELSE {})
    \cup
    (IF "bb" \in DOMAIN components
     THEN {[key |-> "bb", level |-> lv[1], ref |-> components["bb"][lv[1]],
            w100 |-> liquidity_weights10.bb * lv[2], bw100 |-> 30] :
               lv \in {<<"mb", 10>>, <<"ub", 7>>, <<"lb", 7>>}}
     ELSE {})

\* np.clip(x, -6, 6): a finite x or an infinity lands in [-6, 6] ("in6");
\* nan stays nan.
ClipClass(c) == IF c = "nan" THEN "nan" ELSE "in6"

\* compute_field(current_log_price, sigma, components) for a finite sigma > 0.
\* np.median of a vector holding a nan is nan, and so are (L - med) and the
\* mad; `mad > 1e-9` is then false and the divisor is 1.0.
compute_field(clp, sigma, components) ==
    LET tot == LTotalClass(clp, components)
        med == IF tot = "nan" THEN "nan" ELSE "fin"
        nrm == DivPosClass(AddClass(tot, NegClass(med)))
    IN  [k \in 1..GridLen |-> ClipClass(nrm)]

get_pool_proximity(field_array) == field_array[(Len(field_array) \div 2) + 1]

-----------------------------------------------------------------------------
(* app/engine/particle.py.  epsilon, spread, microvol and quote_size are  *)
(* in millionths, the z inputs in units, pressure in tenths.              *)

epsilon_micro == 50000

shock_weight10 == 10

ParticleInit == [ratio |-> <<1, 1>>, cons |-> <<0, 1>>]

\* update(...) without the floor of the denominator at 1e-6
ParticleUpdateNoFloor(spread, ask, bid, microvol, quote_size, ofi_z, dealer_z, flow_impulse_z, shock_val) ==
    LET denom    == epsilon_micro + spread + microvol - quote_size
        denomF   == denom
        pressure == 10 * ofi_z + 7 * dealer_z + 5 * flow_impulse_z
                      + shock_weight10 * shock_val
        cons     == Norm(<<Abs(pressure) * denomF, 50000000>>)
        s0       == Norm(<<ask, bid>>)
        s        == IF cons[1] = 0
                    THEN [ratio |-> IF ask >= bid THEN s0 ELSE <<1, 1>>,
                          cons |-> cons]
                    ELSE [ratio |-> s0, cons |-> cons]
    IN  [s |-> s, pressure10 |-> pressure,
         inertia |-> IF denomF > 0 THEN Norm(<<1000000, denomF>>) ELSE <<-1, 1>>,
         annihilation |-> [s |-> s, s0 |-> s0]]

\* update(...): s = max(0, s0 - cons) with s0 = 0.5 ln(ask/bid) is carried as
\* the pair (ask/bid, cons); with cons = 0 it is 0.5 ln(max(ask/bid, 1)).
ParticleUpdate(spread, ask, bid, microvol, quote_size, ofi_z, dealer_z, flow_impulse_z, shock_val) ==
    LET denom    == epsilon_micro + spread + microvol - quote_size
        denomF   == IF denom > 1 THEN denom ELSE 1
        pressure == 10 * ofi_z + 7 * dealer_z + 5 * flow_impulse_z
                      + shock_weight10 * shock_val
        cons     == Norm(<<Abs(pressure) * denomF, 50000000>>)
        s0       == Norm(<<ask, bid>>)
        s        == IF cons[1] = 0
                    THEN [ratio |-> IF ask >= bid THEN s0 ELSE <<1, 1>>,
                          cons |-> cons]
                    ELSE [ratio |-> s0, cons |-> cons]
    IN  [s |-> s, pressure10 |-> pressure,
         inertia |-> Norm(<<1000000, denomF>>),
         annihilation |-> [s |-> s, s0 |-> s0]]

\* self.s after update(...): max(0, s0 - cons), carried as in ParticleUpdate
ParticleRetained(spread, ask, bid, microvol, quote_size, ofi_z, dealer_z, flow_impulse_z, shock_val) ==
    LET denom    == epsilon_micro + spread + microvol - quote_size
        pressure == 10 * ofi_z + 7 * dealer_z + 5 * flow_impulse_z
                      + shock_weight10 * shock_val
        cons     == Norm(<<Abs(pressure) * (IF denom > 1 THEN denom ELSE 1), 50000000>>)
    IN  IF cons[1] = 0 /\ ask < bid
        THEN [ratio |-> <<1, 1>>, cons |-> cons]
        ELSE [ratio |-> Norm(<<ask, bid>>), cons |-> cons]

-----------------------------------------------------------------------------
(* app/engine/hazard.py.  lambda = 1/(1 + exp(-logit)) is carried as the   *)
(* terms of its logit: intercepts[r_idx], and what each coefficient        *)
(* multiplies.  It is finite, in [0, 1], for finite terms.                 *)

\* compute with the intercepts of regime +1 and regime -1 exchanged
HazardComputeSwapped(regime, A, pressure_inertia_ratio, squeeze, pool_prox, d_vwap, d_kijun) ==
    [r_idx |-> IF regime = 1 THEN 2 ELSE IF regime = -1 THEN 1 ELSE 0,
     A |-> A,
     P_L |-> pressure_inertia_ratio,
     squeeze |-> IF squeeze THEN 1 ELSE 0,
     pool |-> pool_prox]

HazardCompute(regime, A, pressure_inertia_ratio, squeeze, pool_prox, d_vwap, d_kijun) ==
    [r_idx |-> IF regime = 1 THEN 1 ELSE IF regime = -1 THEN 2 ELSE 0,
     A |-> A,
     P_L |-> pressure_inertia_ratio,
     squeeze |-> IF squeeze THEN 1 ELSE 0,
     pool |-> pool_prox]

\* logit, for integer terms and an integer configuration (exact in doubles)
HazardLogit(terms, intercepts, coeffs) ==
    intercepts[terms.r_idx + 1]
        + coeffs.A * terms.A
        + coeffs.P_L * terms.P_L
        + coeffs.squeeze * terms.squeeze
        + coeffs.pool * terms.pool

\* 1 / (1 + np.exp(-logit)) for an integer logit, as the rank of the double it
\* yields: 1.0 exactly from logit 37 on (1 + exp(-37) rounds to 1), 0.0
\* exactly up to logit -710 (exp(710) overflows to inf), and strictly
\* increasing in between.
SigmoidRank(logit) ==
    IF logit >= 37 THEN 37 ELSE IF logit <= -710 THEN -710 ELSE logit

-----------------------------------------------------------------------------
(* app/engine/forward.py *)

RatMul(p, q) == Norm(<<p[1] * q[1], p[2] * q[2]>>)

RatAdd(p, q) ==
    LET g == GCD(p[2], q[2])
    IN  Norm(<<p[1] * (q[2] \div g) + q[1] * (p[2] \div g), (p[2] \div g) * q[2]>>)

RatGeq(p, q) == p[1] * q[2] >= q[1] * p[2]

RatOneMinus(p) == Norm(<<p[2] - p[1], p[2]>>)

\* h_zk = h0_dist * exp(beta_L * l_values); h_zk /= sum(h_zk): at a grid
\* point, by the class of l_values there (one nan makes the sum nan).
FwdDist(l_values) ==
    LET anyNan == \E i \in DOMAIN l_values : l_values[i] = "nan"
    IN  [k \in DOMAIN l_values |-> IF anyNan THEN "nan" ELSE "fin"]

\* The loop with `survival *= (1 - current_lambda)` left out: every entry
\* would hold the mass lambda.
RECURSIVE FwdLoopNoDecay(_, _, _, _, _, _, _, _)
FwdLoopNoDecay(k, survival, cum_mass, results, lam, dist, max_h, mass_threshold) ==
    IF k > max_h THEN [map |-> results, cum_mass |-> cum_mass]
    ELSE LET g_k  == RatMul(lam, survival)
             cm   == RatAdd(cum_mass, g_k)
             res  == Append(results, [k |-> k, mass |-> g_k, dist |-> dist])
         IN  IF RatGeq(cm, mass_threshold)
             THEN [map |-> res, cum_mass |-> cm]
             ELSE FwdLoopNoDecay(k + 1, survival, cm, res, lam, dist, max_h,
                                 mass_threshold)

\* The loop with the break taken on `cum_mass > mass_threshold`: it would run
\* one horizon further whenever the cumulative mass meets the threshold exactly.
RECURSIVE FwdLoopStrict(_, _, _, _, _, _, _, _)
FwdLoopStrict(k, survival, cum_mass, results, lam, dist, max_h, mass_threshold) ==
    IF k > max_h THEN [map |-> results, cum_mass |-> cum_mass]
    ELSE LET g_k  == RatMul(lam, survival)
             sv   == RatMul(survival, RatOneMinus(lam))
             cm   == RatAdd(cum_mass, g_k)
             res  == Append(results, [k |-> k, mass |-> g_k, dist |-> dist])
         IN  IF RatGeq(cm, mass_threshold) /\ ~RatGeq(mass_threshold, cm)
             THEN [map |-> res, cum_mass |-> cm]
             ELSE FwdLoopStrict(k + 1, sv, cm, res, lam, dist, max_h, mass_threshold)

\* the body of `for k in range(1, max_h + 1)`, from iteration k on
RECURSIVE FwdLoop(_, _, _, _, _, _, _, _)
FwdLoop(k, survival, cum_mass, results, lam, dist, max_h, mass_threshold) ==
    IF k > max_h THEN [map |-> results, cum_mass |-> cum_mass]
    ELSE LET g_k  == RatMul(lam, survival)
             sv   == RatMul(survival, RatOneMinus(lam))
             cm   == RatAdd(cum_mass, g_k)
             res  == Append(results, [k |-> k, mass |-> g_k, dist |-> dist])
         IN  IF RatGeq(cm, mass_threshold)
             THEN [map |-> res, cum_mass |-> cm]
             ELSE FwdLoop(k + 1, sv, cm, res, lam, dist, max_h, mass_threshold)

\* compute(current_lambda, current_price, current_sigma, l_total_func) under
\* settings.forward = {max_horizon, mass_threshold}
ForwardMapCompute(current_lambda, l_total_func, max_h, mass_threshold) ==
    FwdLoop(1, <<1, 1>>, <<0, 1>>, <<>>, current_lambda, FwdDist(l_total_func),
            max_h, mass_threshold)

\* compute(...) for a lambda carried by its logit: the entries k = 1..n each
\* hold mass lambda (1-lambda)^(k-1), finite for a finite lambda, and the
\* same dist.
ForwardMapOfLogit(current_lambda, l_total_func) ==
    [lam |-> current_lambda, dist |-> FwdDist(l_total_func)]

-----------------------------------------------------------------------------
(* Bounds and inputs *)

MaxCycles == 2

MaxLongCycles == 22

MaxTs == 2

MaxVarDen == 1771561

\* symbol_config.symbols, in the order of the processors dict
SymOrder == <<"A", "B">>

Clients == {"c1", "c2"}

Closes == {1, 4}

Volumes == {3}

BarOf(ts, close, vol) ==
    [timestamp |-> ts, close |-> close, high |-> close + 1, low |-> close,
     volume |-> vol]

\* what get_latest_bar may return when it returns a bar: the bar stamped ts
\* closes at 4 for an odd ts and at 1 for an even one
Bars == {BarOf(ts, IF ts % 2 = 1 THEN 4 ELSE 1, v) : ts \in 1..MaxTs, v \in Volumes}

\* a feed whose bar of pass n is stamped n
SteadyBars(n) == {BarOf(n, c, v) : c \in Closes, v \in Volumes}

\* what get_quotes may return when it returns a quote (0 < bid <= ask)
Quotes == {[bid_price |-> 1, ask_price |-> 2]}

-----------------------------------------------------------------------------
(* app/api/v1/analytics.py over the tables of app/models/market.py.  A     *)
(* table is kept per symbol as the number of rows at each timestamp (no    *)
(* table has a unique constraint on (symbol, timestamp)); the bar the      *)
(* provider delivers for a timestamp is always the same one, so a bar row  *)
(* is known by its timestamp.                                              *)

ApiSymbols == {"A", "B"}

\* .limit(1000) of compute_analytics
compute_limit == 1000

\* close of the provider's bar stamped ts
CloseAt(ts) == IF ts % 2 = 1 THEN 1 ELSE 2

NoRows(times) == [t \in times |-> 0]

\* the tables after Base.metadata.create_all, for timestamps 1..n;
\* by_compute counts the technical_indicators rows added by compute_analytics
EmptyDb(n) ==
    [market_bars |-> [sym \in ApiSymbols |-> NoRows(1..n)],
     technical_indicators |-> [sym \in ApiSymbols |-> NoRows(1..n)],
     by_compute |-> [sym \in ApiSymbols |-> NoRows(1..n)],
     collapse_field |-> [sym \in ApiSymbols |-> NoRows(1..n)]]

\* the number of rows with a timestamp in lo..hi (by halves, so that the
\* evaluation stays shallow over a thousand timestamps)
RECURSIVE CountRange(_, _, _)
CountRange(rows, lo, hi) ==
    IF lo > hi THEN 0
    ELSE IF lo = hi THEN rows[lo]
    ELSE LET mid == (lo + hi) \div 2
         IN  CountRange(rows, lo, mid) + CountRange(rows, mid + 1, hi)

\* len(query.all())
CountRows(rows) == CountRange(rows, 1, Len(rows))

\* the greatest timestamp in lo..hi that has a row, or None
RECURSIVE LastIn(_, _, _)
LastIn(rows, lo, hi) ==
    IF lo = hi THEN (IF rows[lo] > 0 THEN Some(lo) ELSE None)
    ELSE LET mid   == (lo + hi) \div 2
             upper == LastIn(rows, mid + 1, hi)
         IN  IF upper # None THEN upper ELSE LastIn(rows, lo, mid)

\* query.order_by(desc(timestamp)).first(): the timestamp of the row, or None
LatestOf(rows) == LastIn(rows, 1, Len(rows))

\* the greatest timestamp in lo..hi from which on there are at least n rows
RECURSIVE CutDesc(_, _, _, _)
CutDesc(rows, n, lo, hi) ==
    IF lo = hi THEN lo
    ELSE LET mid == (lo + hi + 1) \div 2
         IN  IF CountRange(rows, mid, Len(rows)) >= n
             THEN CutDesc(rows, n, mid, hi)
             ELSE CutDesc(rows, n, lo, mid - 1)

\* query.order_by(desc(timestamp)).limit(n).all(): the n most recent rows
TakeNewest(rows, n) ==
    IF CountRows(rows) <= n THEN rows
    ELSE LET cut   == CutDesc(rows, n, 1, Len(rows))
             after == CountRange(rows, cut + 1, Len(rows))
         IN  [t \in DOMAIN rows |->
                 IF t > cut THEN rows[t] ELSE IF t = cut THEN n - after ELSE 0]

\* the least timestamp in lo..hi up to which there are at least n rows
RECURSIVE CutAsc(_, _, _, _)
CutAsc(rows, n, lo, hi) ==
    IF lo = hi THEN lo
    ELSE LET mid == (lo + hi) \div 2
         IN  IF CountRange(rows, 1, mid) >= n
             THEN CutAsc(rows, n, lo, mid)
             ELSE CutAsc(rows, n, mid + 1, hi)

\* query.order_by(timestamp).limit(n).all(): ascending, so the n oldest rows
TakeOldest(rows, n) ==
    IF CountRows(rows) <= n THEN rows
    ELSE LET cut    == CutAsc(rows, n, 1, Len(rows))
             before == CountRange(rows, 1, cut - 1)
         IN  [t \in DOMAIN rows |->
                 IF t < cut THEN rows[t] ELSE IF t = cut THEN n - before ELSE 0]

\* np.diff(prices) / prices[:-1] over the rows with a timestamp in lo..hi, in
\* timestamp order: the set of its values, with the first and the last
\* timestamp that has a row (two rows of one timestamp have return 0)
RECURSIVE ReturnsIn(_, _, _)
ReturnsIn(rows, lo, hi) ==
    IF lo = hi
    THEN IF rows[lo] = 0 THEN [first |-> None, last |-> None, vals |-> {}]
         ELSE [first |-> Some(lo), last |-> Some(lo),
               vals |-> IF rows[lo] > 1 THEN {<<0, 1>>} ELSE {}]
    ELSE LET mid == (lo + hi) \div 2
             l   == ReturnsIn(rows, lo, mid)
             r   == ReturnsIn(rows, mid + 1, hi)
         IN  [first |-> IF l.first # None THEN l.first ELSE r.first,
              last  |-> IF r.last # None THEN r.last ELSE l.last,
              vals  |-> l.vals \cup r.vals \cup
                        (IF l.last # None /\ r.first # None
                         THEN {Norm(<<CloseAt(r.first[1]) - CloseAt(l.last[1]),
                                      CloseAt(l.last[1])>>)}
                         ELSE {})]

\* compute_full_analytics raises IndexError when compute_pool_field returns
\* the all-zero field (fewer than 2 returns, or returns of zero variance):
\* P_tau_z is then all zero and is not normalized, its cumsum is all zero,
\* np.searchsorted returns len(z_values) and z_values[len(z_values)] is out
\* of range.
FullAnalyticsRaises(rows) ==
    \/ CountRows(rows) <= 2
    \/ Cardinality(ReturnsIn(rows, 1, Len(rows)).vals) <= 1

AddRows(rows, more) == [t \in DOMAIN rows |-> rows[t] + more[t]]

\* the rows of a fetch covering the timestamps lo..hi, one bar per minute
WindowRows(times, window) ==
    [t \in times |-> IF window[1] <= t /\ t <= window[2] THEN 1 ELSE 0]

\* GET /analytics/{symbol}
get_analytics(store, symbol) ==
    LET latest_bar == LatestOf(store.market_bars[symbol])
    IN  IF latest_bar = None
        THEN [endpoint |-> "analytics", symbol |-> symbol, status |-> 404]
        ELSE [endpoint |-> "analytics", symbol |-> symbol, status |-> 200,
              timestamp |-> latest_bar[1],
              indicators |-> LatestOf(store.technical_indicators[symbol]),
              collapse_field |-> LatestOf(store.collapse_field[symbol])]

\* GET /bars/{symbol}, /indicators/{symbol}, /collapse-field/{symbol}
get_list(store, table, symbol, limit) ==
    [endpoint |-> table, symbol |-> symbol, status |-> 200,
     rows |-> TakeNewest(store[table][symbol], limit)]

\* POST /ingest/{symbol} when fetch_bars returned bars_data: the database
\* after the call.  store_bars commits the bars; the indicators and the
\* collapse field are committed together at the end, or not at all when
\* compute_full_analytics raises.
ingest_data_db(store, symbol, bars_data) ==
    LET stored == [store EXCEPT !.market_bars[symbol] = AddRows(@, bars_data)]
    IN  IF CountRows(bars_data) = 0 THEN store
        ELSE IF FullAnalyticsRaises(bars_data) THEN stored
        ELSE [stored EXCEPT
                 !.technical_indicators[symbol] = AddRows(@, bars_data),
                 !.collapse_field[symbol][LatestOf(bars_data)[1]] = @ + 1]

\* ingest_data without the `if not bars_data` test of lines 134-135
ingest_dataUnchecked(store, symbol, bars_data) ==
    [endpoint |-> "ingest", symbol |-> symbol,
     status |-> IF FullAnalyticsRaises(bars_data) THEN 500 ELSE 200,
     bars_ingested |-> CountRows(bars_data)]

ingest_data(store, symbol, bars_data) ==
    [endpoint |-> "ingest", symbol |-> symbol,
     status |-> IF CountRows(bars_data) = 0 THEN 404
                ELSE IF FullAnalyticsRaises(bars_data) THEN 500 ELSE 200,
     bars_ingested |-> CountRows(bars_data)]

\* the bars compute_analytics reads (lines 202-204)
ComputeBars(store, symbol) == TakeOldest(store.market_bars[symbol], compute_limit)

\* the rows of df_with_indicators that compute_analytics adds (lines 225-246)
NewIndicators(store, symbol, bars) ==
    LET latest_indicator_time == LatestOf(store.technical_indicators[symbol])
    IN  [t \in DOMAIN bars |->
            IF latest_indicator_time = None \/ t > latest_indicator_time[1]
            THEN bars[t] ELSE 0]

\* POST /compute/{symbol}: the database after the call
compute_analytics_db(store, symbol) ==
    LET bars == ComputeBars(store, symbol)
        new  == NewIndicators(store, symbol, bars)
    IN  IF CountRows(bars) = 0 \/ FullAnalyticsRaises(bars) THEN store
        ELSE [store EXCEPT
                 !.technical_indicators[symbol] = AddRows(@, new),
                 !.by_compute[symbol] = AddRows(@, new),
                 !.collapse_field[symbol][LatestOf(bars)[1]] = @ + 1]

compute_analytics(store, symbol) ==
    LET bars == ComputeBars(store, symbol)
    IN  IF CountRows(bars) = 0
        THEN [endpoint |-> "compute", symbol |-> symbol, status |-> 404]
        ELSE IF FullAnalyticsRaises(bars)
        THEN [endpoint |-> "compute", symbol |-> symbol, status |-> 500]
        ELSE [endpoint |-> "compute", symbol |-> symbol, status |-> 200,
              bars_processed |-> CountRows(bars),
              newest_processed |-> LatestOf(bars)[1],
              collapse_timestamp |-> LatestOf(bars)[1]]

-----------------------------------------------------------------------------
(* app/services/analytics/collapse_field.py: compute_forward_map.  The     *)
(* grid is in eighths.  P_tau_z = exp(-lambda tau/60) L(z) G(z) is carried *)
(* up to a positive factor, as non-negative integers: the normalization    *)
(* divides the factor out, and only which entries are 0 matters before it. *)

z_min8 == -32

z_max8 == 32

z_step8 == 2

\* len(np.arange(z_min, z_max + z_step, z_step))
ZLen == ((z_max8 + z_step8 - z_min8) + z_step8 - 1) \div z_step8

z_values == [k \in 1..ZLen |-> z_min8 + (k - 1) * z_step8]

\* settings.confidence_levels, in thousandths
confidence_levels == {680, 950, 997}

\* tau_horizons = [1, 5, 15, 30, 60]
tau_horizons == <<1, 5, 15, 30, 60>>

\* stats.norm.pdf(z_values, loc=current_z, scale=sqrt(tau/60)) underflows to
\* 0.0 further than about 38.6 scales from current_z: the number of grid
\* steps within that distance
PdfReach(tau) ==
    CASE tau = 1 -> 19 [] tau = 5 -> 44 [] tau = 15 -> 77 [] tau = 30 -> 109
      [] OTHER -> 154

\* the gaussian around the grid position centre (which may lie off the grid):
\* positive and decreasing within reach, 0.0 beyond
GaussianWeights(centre, tau) ==
    [k \in 1..ZLen |-> Max2(0, PdfReach(tau) + 1 - Abs(k - centre))]

RECURSIVE CumSum(_, _)
CumSum(w, k) == IF k = 0 THEN 0 ELSE w[k] + CumSum(w, k - 1)

\* np.searchsorted(cdf, q) for q = num/den, 0-based: the number of entries
\* of cdf below q, where cdf[k] = CumSum(w, k) / total (or 0 when the map
\* was not normalized)
SearchSorted(w, total, num, den) ==
    Cardinality({k \in 1..ZLen :
        IF total > 0 THEN CumSum(w, k) * den < num * total ELSE 0 < num})

\* one pass of the loop over tau_horizons (lines 222-255)
ForwardMapAt(tau, centre, L_values, decay) ==
    LET g     == GaussianWeights(centre, tau)
        w     == [k \in 1..ZLen |-> decay * L_values[k] * g[k]]
        total == CumSum(w, ZLen)
        idx   == [level \in confidence_levels |->
                     [lower_idx |-> SearchSorted(w, total, 1000 - level, 2000),
                      upper_idx |-> SearchSorted(w, total, 1000 + level, 2000)]]
    IN  [tau |-> tau,
         P_tau_z |-> [k \in 1..ZLen |->
                         IF total > 0 THEN Norm(<<w[k], total>>) ELSE <<0, 1>>],
         idx |-> idx]

\* compute_forward_map(current_z, L_values, lambda_t): z_values[idx] raises
\* IndexError for idx = len(z_values)
compute_forward_map(centre, L_values, decay) ==
    LET per == [i \in 1..Len(tau_horizons) |->
                   ForwardMapAt(tau_horizons[i], centre, L_values, decay)]
    IN  IF \E i \in 1..Len(tau_horizons), level \in confidence_levels :
              \/ per[i].idx[level].lower_idx >= ZLen
              \/ per[i].idx[level].upper_idx >= ZLen
        THEN [raised |-> "IndexError", probability_maps |-> <<>>,
              confidence_intervals |-> <<>>]
        ELSE [raised |-> "",
              probability_maps |-> [i \in 1..Len(tau_horizons) |-> per[i].P_tau_z],
              confidence_intervals |->
                  [i \in 1..Len(tau_horizons) |->
                      [level \in confidence_levels |->
                          [lower_z |-> z_values[per[i].idx[level].lower_idx + 1],
                           upper_z |-> z_values[per[i].idx[level].upper_idx + 1],
                           tau |-> tau_horizons[i]]]]]

\* compute_pool_field for fewer than 2 returns or zero return variance
ZeroField == [k \in 1..ZLen |-> 0]

-----------------------------------------------------------------------------
(* app/worker.py: SymbolProcessor *)

\* dealer is DealerFilter() as constructed (p = q = 0.5, q carried as its
\* logit); liq, haz and fwd hold settings only
ProcessorInit ==
    [last_log |-> None, sigma |-> SigmaInit, tech |-> TechInit,
     ichi |-> IchiInit, part_s |-> ParticleInit,
     dealer |-> [p |-> <<1, 2>>, q_logit |-> <<0, 1>>]]

\* `self.last_log if self.last_log else 0.0`: None and 0.0 are both falsy
LogReturn(last_log, log_p) ==
    IF last_log # None /\ last_log[1] # 0 THEN log_p - last_log[1] ELSE 0

\* process, from the bar to the await of get_quotes (lines 33-43): the
\* processor afterwards
ProcessBarState(proc, bar) ==
    LET log_p == Log2(bar.close)
        ret   == LogReturn(proc.last_log, log_p)
    IN  [proc EXCEPT !.last_log = Some(log_p),
                     !.sigma = SigmaUpdate(proc.sigma, ret),
                     !.tech = TechUpdateState(proc.tech, bar.close, bar.volume),
                     !.ichi = IchiUpdateState(proc.ichi, bar.high, bar.low)]

\* the same lines: the locals live at the await of get_quotes
ProcessBarLocals(proc, bar) ==
    LET log_p    == Log2(bar.close)
        ret      == LogReturn(proc.last_log, log_p)
        curr_sig == SigmaValue(SigmaUpdate(proc.sigma, ret))
        t_res    == TechUpdateResult(proc.tech, bar.close, bar.volume)
        i_res    == IchiUpdateResult(proc.ichi, bar.high, bar.low, bar.close)
        comps    == [vwap |-> [price |-> t_res.vwap], bb |-> t_res.bb]
    IN  [bar |-> bar, price |-> bar.close, log_p |-> log_p, ret |-> ret,
         curr_sig |-> curr_sig, t_res |-> t_res, i_res |-> i_res,
         l_field |-> compute_field("fin", curr_sig, comps)]

\* self.part.update(0.01, ask, bid, 0, 0, 0, 0, 0, 0)
ProcessParticle(quotes) ==
    ParticleUpdate(10000, quotes.ask_price, quotes.bid_price, 0, 0, 0, 0, 0, 0)

\* process, from the quotes to the return (lines 46-57): the MarketState
ProcessQuotesState(symbol, loc, quotes) ==
    LET part_res == ProcessParticle(quotes)
        lam == HazardCompute(loc.i_res.state, part_res.annihilation, 0, FALSE,
                             0, 0, 0)
        fwd == ForwardMapOfLogit(lam, loc.l_field)
    IN  [timestamp |-> loc.bar.timestamp, symbol |-> symbol,
         price |-> loc.price, log_price |-> loc.log_p, returns |-> loc.ret,
         sigma |-> loc.curr_sig, vwap |-> loc.t_res.vwap, rsi |-> loc.t_res.rsi,
         bb |-> loc.t_res.bb,
         ichi_cloud_state |-> loc.i_res.state,
         ichi_cloud_thick4 |-> loc.i_res.thick4,
         spread |-> 10000, pressure |-> part_res.pressure10,
         inertia |-> part_res.inertia, annihilation |-> part_res.annihilation,
         dealer_p |-> <<1, 2>>, dealer_q |-> <<1, 2>>, dealer_feedback |-> 0,
         lambda_t |-> lam, pool_field |-> loc.l_field, forward_map |-> fwd]

-----------------------------------------------------------------------------
(* json.dumps(obj, default=str): allow_nan is left at True, so a float is  *)
(* written as a number, or as the token NaN, Infinity or -Infinity;        *)
(* `default` is only called for objects json cannot encode.                *)

JsonFloat(cls) ==
    IF cls = "nan" THEN "NaN"
    ELSE IF cls = "pinf" THEN "Infinity"
    ELSE IF cls = "ninf" THEN "-Infinity"
    ELSE "number"

\* the message of worker.py line 69
JsonDumps(sym, st) ==
    [symbol |-> sym, price |-> st.price, sigma |-> JsonFloat(st.sigma.cls),
     lambda |-> JsonFloat("fin"),
     map |-> [mass |-> JsonFloat("fin"),
              dist |-> [k \in DOMAIN st.forward_map.dist |->
                            JsonFloat(st.forward_map.dist[k])]]]

-----------------------------------------------------------------------------
(* app/worker.py: run_worker_loop.  Each action is the code between two    *)
(* awaits; an exception no handler catches ends the task ("dead"), and an  *)
(* await that never completes leaves it suspended there ("hung").          *)

SymSeq == SelectSeq(SymOrder, LAMBDA s : s \in DOMAIN procs)

CurSym == SymSeq[si]

TickStart == [symbol |-> CurSym, proc |-> procs[CurSym], rows |-> Len(db)]

\* the for loop moves to the next processor, or the `async with` block ends
\* and the loop awaits asyncio.sleep(5)
Advance ==
    IF si < Len(SymSeq)
    THEN /\ si' = si + 1
         /\ wpc' = "bar"
    ELSE /\ si' = si
         /\ wpc' = "sleep"

\* WGetBarOk with one SigmaCalculator, Technicals and Ichimoku shared by all
\* the processors: a bar of any symbol would update them for every symbol
WGetBarOkShared(bars) ==
    /\ wpc = "bar"
    /\ procs[CurSym].sigma.var_t[2] <= MaxVarDen
    /\ \E bar \in bars :
         /\ tick' = Some(ProcessBarLocals(procs[CurSym], bar))
         /\ procs' = [s \in DOMAIN procs |->
                         [ProcessBarState(procs[CurSym], bar) EXCEPT
                              !.part_s = procs[s].part_s]]
    /\ tick_pre' = TickStart
    /\ wpc' = "quotes"
    /\ exc' = "none"
    /\ UNCHANGED <<cyc, si, state, db, msg, bidx, connection>>
    /\ UNCHANGED <<clientVars, fwdVars, unitVars>>

\* get_latest_bar returns a bar: lines 33-43 run, then get_quotes is awaited
WGetBarOk(bars) ==
    /\ wpc = "bar"
    /\ procs[CurSym].sigma.var_t[2] <= MaxVarDen
    /\ \E bar \in bars :
         /\ tick' = Some(ProcessBarLocals(procs[CurSym], bar))
         /\ procs' = [procs EXCEPT ![CurSym] = ProcessBarState(@, bar)]
    /\ tick_pre' = TickStart
    /\ wpc' = "quotes"
    /\ exc' = "none"
    /\ UNCHANGED <<cyc, si, state, db, msg, bidx, connection>>
    /\ UNCHANGED <<clientVars, fwdVars, unitVars>>

\* get_latest_bar returns None: `if not bar: return None`, then `if state:`
\* is false
WGetBarAbsent ==
    /\ wpc = "bar"
    /\ tick_pre' = TickStart
    /\ exc' = "bar_absent"
    /\ Advance
    /\ UNCHANGED <<cyc, procs, tick, state, db, msg, bidx, connection>>
    /\ UNCHANGED <<clientVars, fwdVars, unitVars>>

\* get_latest_bar raises: nothing in process or run_worker_loop catches it
WGetBarRaise ==
    /\ wpc = "bar"
    /\ tick_pre' = TickStart
    /\ exc' = "bar_raise"
    /\ wpc' = "dead"
    /\ UNCHANGED <<cyc, si, procs, tick, state, db, msg, bidx, connection>>
    /\ UNCHANGED <<clientVars, fwdVars, unitVars>>

\* get_latest_bar never completes: the await has no timeout
WGetBarHang ==
    /\ wpc = "bar"
    /\ tick_pre' = TickStart
    /\ exc' = "bar_hang"
    /\ wpc' = "hung"
    /\ UNCHANGED <<cyc, si, procs, tick, state, db, msg, bidx, connection>>
    /\ UNCHANGED <<clientVars, fwdVars, unitVars>>

\* get_quotes returns a quote: lines 46-57 run, process returns the state,
\* the loop adds it to the session and awaits the commit
WGetQuotesOk ==
    /\ wpc = "quotes"
    /\ \E q \in Quotes :
         /\ state' = Some(ProcessQuotesState(CurSym, tick[1], q))
         /\ procs' = [procs EXCEPT ![CurSym].part_s = ProcessParticle(q).s]
    /\ wpc' = "commit"
    /\ UNCHANGED <<cyc, si, tick, db, msg, bidx, connection, exc, tick_pre>>
    /\ UNCHANGED <<clientVars, fwdVars, unitVars>>

\* get_quotes returns None: quotes['ask_price'] raises TypeError
WGetQuotesAbsent ==
    /\ wpc = "quotes"
    /\ exc' = "quotes_absent"
    /\ wpc' = "dead"
    /\ UNCHANGED <<cyc, si, procs, tick, state, db, msg, bidx, connection, tick_pre>>
    /\ UNCHANGED <<clientVars, fwdVars, unitVars>>

\* get_quotes raises: nothing catches it
WGetQuotesRaise ==
    /\ wpc = "quotes"
    /\ exc' = "quotes_raise"
    /\ wpc' = "dead"
    /\ UNCHANGED <<cyc, si, procs, tick, state, db, msg, bidx, connection, tick_pre>>
    /\ UNCHANGED <<clientVars, fwdVars, unitVars>>

\* get_quotes never completes: the await has no timeout
WGetQuotesHang ==
    /\ wpc = "quotes"
    /\ exc' = "quotes_hang"
    /\ wpc' = "hung"
    /\ UNCHANGED <<cyc, si, procs, tick, state, db, msg, bidx, connection, tick_pre>>
    /\ UNCHANGED <<clientVars, fwdVars, unitVars>>

\* manager.broadcast takes the next socket of the live list, or returns
BroadcastNext(i) ==
    IF i < Len(active_connections)
    THEN /\ connection' = Some(active_connections[i + 1])
         /\ bidx' = i + 1
         /\ wpc' = "send"
         /\ si' = si
    ELSE /\ connection' = None
         /\ bidx' = i
         /\ Advance

\* the commit succeeds: json.dumps, then manager.broadcast starts
WCommitOk ==
    /\ wpc = "commit"
    /\ db' = Append(db, state[1])
    /\ msg' = Some(JsonDumps(CurSym, state[1]))
    /\ BroadcastNext(0)
    /\ inbox' = [c \in DOMAIN inbox |-> <<>>]
    /\ UNCHANGED <<cyc, procs, tick, state, exc, tick_pre>>
    /\ UNCHANGED <<active_connections, cpc, csym, fwdVars, unitVars>>

\* session.commit raises: nothing catches it
WCommitFail ==
    /\ wpc = "commit"
    /\ exc' = "commit"
    /\ wpc' = "dead"
    /\ UNCHANGED <<cyc, si, procs, tick, state, db, msg, bidx, connection, tick_pre>>
    /\ UNCHANGED <<clientVars, fwdVars, unitVars>>

\* send_text to an open socket completes; the for loop goes on
WSendOk ==
    /\ wpc = "send"
    /\ cpc[connection[1]] = "open"
    /\ inbox' = [inbox EXCEPT ![connection[1]] = Append(@, msg[1])]
    /\ BroadcastNext(bidx)
    /\ UNCHANGED <<cyc, procs, tick, state, db, msg, exc, tick_pre>>
    /\ UNCHANGED <<active_connections, cpc, csym, fwdVars, unitVars>>

\* send_text to a socket whose peer has gone raises: broadcast has no try
WSendFail ==
    /\ wpc = "send"
    /\ cpc[connection[1]] # "open"
    /\ exc' = "send"
    /\ wpc' = "dead"
    /\ UNCHANGED <<cyc, si, procs, tick, state, db, msg, bidx, connection, tick_pre>>
    /\ UNCHANGED <<clientVars, fwdVars, unitVars>>

\* asyncio.sleep(5) completes: the next pass of `while True`
WSleep(limit) ==
    /\ wpc = "sleep"
    /\ cyc < limit
    /\ cyc' = cyc + 1
    /\ si' = 1
    /\ wpc' = "bar"
    /\ UNCHANGED <<procs, tick, state, db, msg, bidx, connection, exc, tick_pre>>
    /\ UNCHANGED <<clientVars, fwdVars, unitVars>>

-----------------------------------------------------------------------------
(* app/api/main.py: websocket_endpoint and ConnectionManager *)

\* list.remove(x): the list without its first x
RemoveFirst(seq, x) ==
    LET i == CHOOSE j \in 1..Len(seq) :
                 seq[j] = x /\ \A h \in 1..(j - 1) : seq[h] # x
    IN  [k \in 1..(Len(seq) - 1) |-> IF k < i THEN seq[k] ELSE seq[k + 1]]

\* a client opens /ws/state/{symbol}: manager.connect accepts and appends
Connect(c, symbol) ==
    /\ cpc[c] = "idle"
    /\ cpc' = [cpc EXCEPT ![c] = "open"]
    /\ csym' = [csym EXCEPT ![c] = Some(symbol)]
    /\ active_connections' = Append(active_connections, c)
    /\ UNCHANGED <<inbox, workerVars, fwdVars, unitVars>>

\* the peer goes away; the handler is still suspended in receive_text
PeerClose(c) ==
    /\ cpc[c] = "open"
    /\ cpc' = [cpc EXCEPT ![c] = "broken"]
    /\ UNCHANGED <<active_connections, csym, inbox, workerVars, fwdVars, unitVars>>

\* receive_text raises in the handler: `except: manager.disconnect(websocket)`
HandlerExit(c) ==
    /\ cpc[c] = "broken"
    /\ cpc' = [cpc EXCEPT ![c] = "closed"]
    /\ csym' = [csym EXCEPT ![c] = None]
    /\ active_connections' = RemoveFirst(active_connections, c)
    /\ UNCHANGED <<inbox, workerVars, fwdVars, unitVars>>

-----------------------------------------------------------------------------
(* Specifications *)

\* no component is driven on its own
InitUnit ==
    /\ obj = None
    /\ args = None
    /\ out = None
    /\ hist = <<>>

InitWorkerWith(symbols, clients) ==
    /\ wpc = "bar"
    /\ cyc = 1
    /\ si = 1
    /\ procs = [s \in symbols |-> ProcessorInit]
    /\ tick = None
    /\ state = None
    /\ db = <<>>
    /\ msg = None
    /\ bidx = 0
    /\ connection = None
    /\ exc = "none"
    /\ tick_pre = [symbol |-> SymOrder[1], proc |-> ProcessorInit, rows |-> 0]
    /\ active_connections = <<>>
    /\ cpc = [c \in clients |-> "idle"]
    /\ csym = [c \in clients |-> None]
    /\ inbox = [c \in clients |-> <<>>]

InitWorker(symbols) == InitWorkerWith(symbols, Clients)

Init ==
    /\ InitWorker({"A", "B"})
    /\ fwd_in = None
    /\ fwd_out = None
    /\ InitUnit

\* the steps of the worker task
WorkerStep ==
    \/ WGetBarOk(Bars)
    \/ WGetBarAbsent
    \/ WGetBarRaise
    \/ WGetBarHang
    \/ WGetQuotesOk
    \/ WGetQuotesAbsent
    \/ WGetQuotesRaise
    \/ WGetQuotesHang
    \/ WCommitOk
    \/ WCommitFail
    \/ WSendOk
    \/ WSendFail
    \/ WSleep(MaxCycles)

\* the steps of the websocket handlers and their peers
ClientStep ==
    \/ \E c \in Clients, s \in {"A", "B"} : Connect(c, s)
    \/ \E c \in Clients : PeerClose(c)
    \/ \E c \in Clients : HandlerExit(c)

Next == WorkerStep \/ ClientStep

Spec == Init /\ [][Next]_vars

\* Two symbols on a provider that answers every call, with a bar or with
\* none; no client connects and the store accepts every row.
MaxIsoCycles == 2

NextIso ==
    \/ WGetBarOk(Bars)
    \/ WGetBarAbsent
    \/ WGetQuotesOk
    \/ WCommitOk
    \/ WSleep(MaxIsoCycles)

SpecIso == Init /\ [][NextIso]_vars

\* One pass over one symbol on a provider that always answers and a store
\* that accepts the row, with three clients.  A client connects while no
\* broadcast is in flight; its peer may go away, and its handler run, at any
\* await of the worker.
CastClients == {"c1", "c2", "c3"}

InitCast ==
    /\ InitWorkerWith({"A"}, CastClients)
    /\ fwd_in = None
    /\ fwd_out = None
    /\ InitUnit

NextCast ==
    \/ WGetBarOk({BarOf(1, 4, 3)})
    \/ WGetQuotesOk
    \/ WCommitOk
    \/ WSendOk
    \/ WSendFail
    \/ \E c \in CastClients : wpc # "send" /\ Connect(c, "A")
    \/ \E c \in CastClients : PeerClose(c)
    \/ \E c \in CastClients : HandlerExit(c)

SpecCast == InitCast /\ [][NextCast]_vars

\* One symbol on a provider that always answers, with one client connected
\* before the first pass and staying; the store accepts or refuses each row.
\* The run is long enough to fill the deques.
InitLong ==
    /\ InitWorker({"A"})
    /\ fwd_in = None
    /\ fwd_out = None
    /\ InitUnit

NextLong ==
    \/ WGetBarOk(SteadyBars(cyc))
    \/ WGetQuotesOk
    \/ WCommitOk
    \/ WCommitFail
    \/ WSendOk
    \/ WSleep(MaxLongCycles)
    \/ (cyc = 1 /\ wpc = "bar" /\ Connect("c1", "A"))

SpecLong == InitLong /\ [][NextLong]_vars

-----------------------------------------------------------------------------
(* Technicals driven on its own: a stream of positive prices whose value   *)
(* changes a bounded number of times                                       *)

MaxTechUpdates == 22

MaxTechChanges == 2

MaxSqueezeUpdates == 52

MaxSqueezeChanges == 1

TechPrices == {1, 2, 4}

\* the number of places where a stream changes value
RECURSIVE Changes(_)
Changes(s) ==
    IF Len(s) <= 1 THEN 0
    ELSE (IF s[1] # s[2] THEN 1 ELSE 0) + Changes(Tail(s))

\* one call of Technicals.update(price, vol)
TechCall(maxUpdates, maxChanges) ==
    /\ Len(hist) < maxUpdates
    /\ \E price \in TechPrices, vol \in Volumes :
         /\ Changes(Append(hist, price)) <= maxChanges
         /\ args' = Some([price |-> price, vol |-> vol])
         /\ out' = Some(TechUpdateResult(obj, price, vol))
         /\ obj' = TechUpdateState(obj, price, vol)
         /\ hist' = Append(hist, price)
    /\ UNCHANGED <<workerVars, clientVars, fwdVars>>

InitTech ==
    /\ InitWorker({"A"})
    /\ fwd_in = None
    /\ fwd_out = None
    /\ obj = TechInit
    /\ args = None
    /\ out = None
    /\ hist = <<>>

NextTech == TechCall(MaxTechUpdates, MaxTechChanges)

SpecTech == InitTech /\ [][NextTech]_vars

NextSqueeze == TechCall(MaxSqueezeUpdates, MaxSqueezeChanges)

SpecSqueeze == InitTech /\ [][NextSqueeze]_vars

-----------------------------------------------------------------------------
(* Ichimoku driven on its own: a stream of bars that changes a bounded      *)
(* number of times                                                         *)

MaxIchiUpdates == 28

MaxIchiChanges == 2

IchiBars ==
    {[high |-> 2, low |-> 1, close |-> 1], [high |-> 5, low |-> 4, close |-> 4],
     [high |-> 5, low |-> 1, close |-> 2]}

\* one call of Ichimoku.update(high, low, close)
IchiCall ==
    /\ Len(hist) < MaxIchiUpdates
    /\ \E bar \in IchiBars :
         /\ Changes(Append(hist, bar)) <= MaxIchiChanges
         /\ args' = Some(bar)
         /\ out' = Some(IchiUpdateResult(obj, bar.high, bar.low, bar.close))
         /\ obj' = IchiUpdateState(obj, bar.high, bar.low)
         /\ hist' = Append(hist, bar)
    /\ UNCHANGED <<workerVars, clientVars, fwdVars>>

InitIchi ==
    /\ InitWorker({"A"})
    /\ fwd_in = None
    /\ fwd_out = None
    /\ obj = IchiInit
    /\ args = None
    /\ out = None
    /\ hist = <<>>

NextIchi == IchiCall

SpecIchi == InitIchi /\ [][NextIchi]_vars

-----------------------------------------------------------------------------
(* SigmaCalculator driven on its own; log returns in units of ln 2 *)

MaxSigmaUpdates == 5

LogReturns == {-2, -1, 0, 1, 2}

\* one call of SigmaCalculator.update(log_ret)
SigmaCall ==
    /\ Len(hist) < MaxSigmaUpdates
    /\ obj.var_t[2] <= MaxVarDen
    /\ \E r \in LogReturns :
         /\ args' = Some(r)
         /\ out' = Some(SigmaValue(SigmaUpdate(obj, r)))
         /\ obj' = SigmaUpdate(obj, r)
         /\ hist' = Append(hist, r)
    /\ UNCHANGED <<workerVars, clientVars, fwdVars>>

InitSigma ==
    /\ InitWorker({"A"})
    /\ fwd_in = None
    /\ fwd_out = None
    /\ obj = SigmaInit
    /\ args = None
    /\ out = None
    /\ hist = <<>>

NextSigma == SigmaCall

SpecSigma == InitSigma /\ [][NextSigma]_vars

-----------------------------------------------------------------------------
(* HazardModel.compute as a function of its arguments and of settings.hazard *)

HazardConfigs ==
    {[intercepts |-> i, coeffs |-> [A |-> 1, P_L |-> 1, squeeze |-> c, pool |-> 1]] :
        i \in {<<0, 40, -1>>, <<-2, 1, 36>>}, c \in {-1, 0, 2}}

HazardInputs ==
    {[cfg |-> cfg, regime |-> r, A |-> a, P_L |-> p, pool |-> l] :
        cfg \in HazardConfigs, r \in {-1, 0, 1, 2}, a \in {0, 1}, p \in {0, 1},
        l \in {-1, 0}}

\* compute(...) with squeeze = True and with squeeze = False on the same inputs
HazardCall ==
    \E in \in HazardInputs :
        LET yes == HazardCompute(in.regime, in.A, in.P_L, TRUE, in.pool, 0, 0)
            no  == HazardCompute(in.regime, in.A, in.P_L, FALSE, in.pool, 0, 0)
        IN  /\ args' = Some(in)
            /\ out' = Some([squeeze |-> SigmoidRank(HazardLogit(yes, in.cfg.intercepts,
                                                                in.cfg.coeffs)),
                            plain |-> SigmoidRank(HazardLogit(no, in.cfg.intercepts,
                                                              in.cfg.coeffs)),
                            r_idx |-> no.r_idx,
                            logit |-> HazardLogit(no, in.cfg.intercepts, in.cfg.coeffs)])
            /\ UNCHANGED <<obj, hist, workerVars, clientVars, fwdVars>>

InitHazard ==
    /\ InitWorker({"A"})
    /\ fwd_in = None
    /\ fwd_out = None
    /\ InitUnit

NextHazard == HazardCall

SpecHazard == InitHazard /\ [][NextHazard]_vars

-----------------------------------------------------------------------------
(* LiquidityField.compute_field as a function of the components mapping *)

LiqKeys == {"vwap", "bb", "kijun", "bb_upper"}

LiqRefs == {1, 2, 4}

LiqBands == {[mb |-> 2, ub |-> 2, lb |-> 2], [mb |-> 2, ub |-> 4, lb |-> 1]}

LiqWeights10 == {0, 10}

\* a components mapping: 'vwap' as the worker passes it, 'bb' as the worker
\* passes it, and further keys carrying a reference price and a weight
LiqComponents(keys, vw, bb, ref, w10) ==
    [k \in keys |->
        CASE k = "vwap" -> [price |-> vw]
          [] k = "bb" -> bb
          [] OTHER -> [price |-> ref, weight10 |-> w10]]

LiqCall ==
    \E keys \in SUBSET LiqKeys, vw \in LiqRefs, bb \in LiqBands, ref \in LiqRefs, w10 \in LiqWeights10 :
        /\ args' = Some(LiqComponents(keys, vw, bb, ref, w10))
        /\ out' = Some(LTotalTerms(LiqComponents(keys, vw, bb, ref, w10)))
        /\ UNCHANGED <<obj, hist, workerVars, clientVars, fwdVars>>

InitLiq ==
    /\ InitWorker({"A"})
    /\ fwd_in = None
    /\ fwd_out = None
    /\ InitUnit

NextLiq == LiqCall

SpecLiq == InitLiq /\ [][NextLiq]_vars

-----------------------------------------------------------------------------
(* app/engine/dealer.py.  p is an exact rational; the z features are in    *)
(* units of ln 2, so that exp(-E_t) is a power of two; q = 1/(1 + exp(-l)) *)
(* is carried as l (0 for the initial 0.5); feedback is carried as the     *)
(* triple ((2p - 1) gex, l, factor) of its three factors.  The 1e-9 in the *)
(* denominator of the odds is left out: it lowers p by a relative 2e-9 at  *)
(* most.                                                                   *)

DealerInit(cfg) ==
    [p |-> <<1, 2>>, q_logit |-> <<0, 1>>,
     stay_prob |-> cfg.stay_prob, flip_prob |-> cfg.flip_prob]

\* update(...) with the is_stale attenuation left out
DealerUpdateNoStale(self, z_features, gex_abs_norm, is_stale) ==
    LET E_t     == SumSeq(z_features)
        p_prior == RatAdd(RatMul(self.p, self.stay_prob),
                          RatMul(RatOneMinus(self.p), self.flip_prob))
        up      == IF E_t >= 0 THEN 1 ELSE 2 ^ (-E_t)
        dn      == IF E_t >= 0 THEN 2 ^ E_t ELSE 1
        p       == Norm(<<p_prior[1] * up,
                          p_prior[1] * up + (p_prior[2] - p_prior[1]) * dn>>)
        q       == RatAdd(<<1, 1>>, Norm(<<2 * Abs(2 * p[1] - p[2]), p[2]>>))
        fb      == [signed |-> Norm(<<(2 * p[1] - p[2]) * gex_abs_norm, p[2]>>),
                    q_logit |-> q,
                    factor10 |-> 10]
    IN  [self |-> [self EXCEPT !.p = p, !.q_logit = q],
         ret |-> [p |-> p, q_logit |-> q, feedback |-> fb]]

\* update(z_features, gex_abs_norm, is_stale): the fields after the call and
\* the returned dict.  p = 1/(1 + exp(-(ln(odds) - E_t))) is
\* odds / (odds + exp(E_t)) with odds = p_prior / (1 - p_prior).
DealerUpdate(self, z_features, gex_abs_norm, is_stale) ==
    LET E_t     == SumSeq(z_features)
        p_prior == RatAdd(RatMul(self.p, self.stay_prob),
                          RatMul(RatOneMinus(self.p), self.flip_prob))
        up      == IF E_t >= 0 THEN 1 ELSE 2 ^ (-E_t)
        dn      == IF E_t >= 0 THEN 2 ^ E_t ELSE 1
        p       == Norm(<<p_prior[1] * up,
                          p_prior[1] * up + (p_prior[2] - p_prior[1]) * dn>>)
        q       == RatAdd(<<1, 1>>, Norm(<<2 * Abs(2 * p[1] - p[2]), p[2]>>))
        fb      == [signed |-> Norm(<<(2 * p[1] - p[2]) * gex_abs_norm, p[2]>>),
                    q_logit |-> q,
                    factor10 |-> IF is_stale THEN 3 ELSE 10]
    IN  [self |-> [self EXCEPT !.p = p, !.q_logit = q],
         ret |-> [p |-> p, q_logit |-> q, feedback |-> fb]]

MaxDealerUpdates == 3

DealerConfigs ==
    {[stay_prob |-> <<3, 4>>, flip_prob |-> <<1, 4>>],
     [stay_prob |-> <<1, 2>>, flip_prob |-> <<1, 4>>],
     [stay_prob |-> <<1, 4>>, flip_prob |-> <<3, 4>>],
     [stay_prob |-> <<1, 1>>, flip_prob |-> <<3, 4>>]}

ZFeatures == {<<1>>, <<1, 1>>, <<1, -1>>}

GexNorms == {0, 2}

DealerCall ==
    /\ Len(hist) < MaxDealerUpdates
    /\ \E z \in ZFeatures, gex \in GexNorms, stale \in BOOLEAN :
         /\ args' = Some([z_features |-> z, gex_abs_norm |-> gex, is_stale |-> stale])
         /\ out' = Some(DealerUpdate(obj, z, gex, stale).ret)
         /\ obj' = DealerUpdate(obj, z, gex, stale).self
         /\ hist' = Append(hist, [self |-> obj, z_features |-> z, gex_abs_norm |-> gex, is_stale |-> stale])
    /\ UNCHANGED <<workerVars, clientVars, fwdVars>>

InitDealer ==
    /\ InitWorker({"A"})
    /\ fwd_in = None
    /\ fwd_out = None
    /\ obj \in {DealerInit(cfg) : cfg \in DealerConfigs}
    /\ args = None
    /\ out = None
    /\ hist = <<>>

NextDealer == DealerCall

SpecDealer == InitDealer /\ [][NextDealer]_vars

-----------------------------------------------------------------------------
(* ParticleMapper.update as a function of its arguments *)

PartQuotes == {<<1, 1>>, <<1, 2>>, <<1, 4>>, <<2, 1>>}

PartSpreads == {10000, -100000}

PartMicrovols == {0, 1000000}

PartQuoteSizes == {0, 2000000}

PartInputs ==
    {[spread |-> sp, bid |-> qt[1], ask |-> qt[2], microvol |-> mv, quote_size |-> qs,
      ofi_z |-> o, dealer_z |-> dz, flow_impulse_z |-> f, shock_val |-> sh] :
        sp \in PartSpreads, qt \in PartQuotes, mv \in PartMicrovols,
        qs \in PartQuoteSizes, o \in {-1, 2}, dz \in {0, 1}, f \in {-1, 0},
        sh \in {0, 1}}

PartCall ==
    \E in \in PartInputs :
        /\ args' = Some(in)
        /\ out' = Some(ParticleUpdate(in.spread, in.ask, in.bid, in.microvol,
                           in.quote_size, in.ofi_z, in.dealer_z,
                           in.flow_impulse_z, in.shock_val))
        /\ obj' = ParticleRetained(in.spread, in.ask, in.bid, in.microvol,
                      in.quote_size, in.ofi_z, in.dealer_z, in.flow_impulse_z,
                      in.shock_val)
        /\ UNCHANGED <<hist, workerVars, clientVars, fwdVars>>

InitPart ==
    /\ InitWorker({"A"})
    /\ fwd_in = None
    /\ fwd_out = None
    /\ obj = ParticleInit
    /\ args = None
    /\ out = None
    /\ hist = <<>>

NextPart == PartCall

SpecPart == InitPart /\ [][NextPart]_vars

-----------------------------------------------------------------------------
(* Technicals.update over prices and volumes (the VWAP sums) *)

MaxVwapUpdates == 4

VwapVolumes == {0, 1, 3}

VwapCall ==
    /\ Len(hist) < MaxVwapUpdates
    /\ \E price \in TechPrices, vol \in VwapVolumes :
         /\ args' = Some([price |-> price, vol |-> vol])
         /\ out' = Some(TechUpdateResult(obj, price, vol))
         /\ obj' = TechUpdateState(obj, price, vol)
         /\ hist' = Append(hist, [price |-> price, vol |-> vol])
    /\ UNCHANGED <<workerVars, clientVars, fwdVars>>

NextVwap == VwapCall

SpecVwap == InitTech /\ [][NextVwap]_vars

-----------------------------------------------------------------------------
(* The REST endpoints as requests against one database *)

MaxApiTs == 3

MaxBarRows == 5

MaxCollapseRows == 2

\* what fetch_bars may return for a symbol the provider knows: no bar (also
\* after an error of the provider) or the bars of a window of minutes
ApiWindows == {<<1, 0>>, <<1, 2>>, <<1, 3>>, <<3, 3>>}

\* fetch_bars for symbol: the provider has bars for "A" only
FetchedWindows(symbol, windows) == IF symbol = "A" THEN windows ELSE {<<1, 0>>}

ListLimits == {1, 100}

GetAnalytics ==
    \E symbol \in ApiSymbols :
        /\ args' = Some([endpoint |-> "analytics", symbol |-> symbol])
        /\ out' = Some(get_analytics(obj, symbol))
        /\ hist' = <<obj>>
        /\ obj' = obj
        /\ UNCHANGED <<workerVars, clientVars, fwdVars>>

GetList ==
    \E symbol \in ApiSymbols, limit \in ListLimits, table \in {"market_bars", "technical_indicators", "collapse_field"} :
        /\ args' = Some([endpoint |-> table, symbol |-> symbol, limit |-> limit])
        /\ out' = Some(get_list(obj, table, symbol, limit))
        /\ hist' = <<obj>>
        /\ obj' = obj
        /\ UNCHANGED <<workerVars, clientVars, fwdVars>>

IngestData(windows, maxRows) ==
    \E symbol \in ApiSymbols :
      \E window \in FetchedWindows(symbol, windows) :
        LET bars_data == WindowRows(DOMAIN obj.market_bars[symbol], window)
        IN  /\ CountRows(obj.market_bars[symbol]) + CountRows(bars_data) <= maxRows
            /\ args' = Some([endpoint |-> "ingest", symbol |-> symbol, window |-> window])
            /\ out' = Some(ingest_data(obj, symbol, bars_data))
            /\ hist' = <<obj>>
            /\ obj' = ingest_data_db(obj, symbol, bars_data)
            /\ UNCHANGED <<workerVars, clientVars, fwdVars>>

ComputeAnalytics ==
    \E symbol \in ApiSymbols :
        /\ CountRows(obj.collapse_field[symbol]) < MaxCollapseRows
        /\ args' = Some([endpoint |-> "compute", symbol |-> symbol])
        /\ out' = Some(compute_analytics(obj, symbol))
        /\ hist' = <<obj>>
        /\ obj' = compute_analytics_db(obj, symbol)
        /\ UNCHANGED <<workerVars, clientVars, fwdVars>>

InitApi ==
    /\ InitWorker({"A"})
    /\ fwd_in = None
    /\ fwd_out = None
    /\ obj = EmptyDb(MaxApiTs)
    /\ args = None
    /\ out = None
    /\ hist = <<>>

NextApi ==
    \/ GetAnalytics
    \/ GetList
    \/ IngestData(ApiWindows, MaxBarRows)
    \/ ComputeAnalytics

SpecApi == InitApi /\ [][NextApi]_vars

\* The same endpoints over more minutes than compute_analytics reads: every
\* fetch that returns bars returns a thousand or more.
MaxLargeTs == 1002

MaxLargeRows == 2003

LargeWindows == {<<1, 0>>, <<1, 1000>>, <<1, 1001>>, <<3, 1002>>}

InitApiLarge ==
    /\ InitWorker({"A"})
    /\ fwd_in = None
    /\ fwd_out = None
    /\ obj = EmptyDb(MaxLargeTs)
    /\ args = None
    /\ out = None
    /\ hist = <<>>

NextApiLarge ==
    \/ GetAnalytics
    \/ GetList
    \/ IngestData(LargeWindows, MaxLargeRows)
    \/ ComputeAnalytics

SpecApiLarge == InitApiLarge /\ [][NextApiLarge]_vars

-----------------------------------------------------------------------------
(* compute_forward_map as a function of its arguments *)

\* L_values: the all-zero field, a flat density, a density that is 0.0 on
\* the left half of the grid, a single peak
PoolFields ==
    {ZeroField,
     [k \in 1..ZLen |-> 1],
     [k \in 1..ZLen |-> IF k > 16 THEN 2 ELSE 0],
     [k \in 1..ZLen |-> IF k = 9 THEN 5 ELSE 0],
     [k \in 1..ZLen |-> 1 + Abs(k - 17)]}

\* current_z as a grid position: on the grid (1..33), and beyond its upper
\* end (z = 7 and z = 10.75)
CurrentPositions == {1, 5, 9, 13, 17, 21, 25, 29, 33, 45, 60}

\* exp(-lambda_t tau / 60) up to a positive factor: 1 for a moderate
\* lambda_t, 0 where the exponential underflows
DecayFactors == {0, 1}

FwdMapInputs ==
    {[current_z |-> centre, L_values |-> L_values, decay |-> decay] :
        centre \in CurrentPositions, L_values \in PoolFields, decay \in DecayFactors}

\* the call on the arguments drawn by the initial state
FwdMapCall ==
    /\ out = None
    /\ out' = Some(compute_forward_map(args[1].current_z, args[1].L_values, args[1].decay))
    /\ UNCHANGED <<obj, args, hist, workerVars, clientVars, fwdVars>>

InitFwdMap ==
    /\ InitWorker({"A"})
    /\ fwd_in = None
    /\ fwd_out = None
    /\ obj = None
    /\ args \in {Some(in) : in \in FwdMapInputs}
    /\ out = None
    /\ hist = <<>>

NextFwdMap == FwdMapCall

SpecFwdMap == InitFwdMap /\ [][NextFwdMap]_vars

-----------------------------------------------------------------------------
(* app/api/v1/websocket.py: ConnectionManager and the /ws/stream/{symbol}  *)
(* handler.  obj holds the manager, one handler task per socket, the peers *)
(* and the broadcast_to_symbol call in progress; each action is the code   *)
(* between two awaits.                                                     *)

StreamSockets == {"w1", "w2"}

StreamSymbols == {"A", "B"}

IsIn(seq, x) == \E i \in 1..Len(seq) : seq[i] = x

\* disconnect(websocket, symbol): list.remove raises ValueError when the
\* socket is not in the list; symbol_subscribers[symbol] is None when the
\* dict has no such key
disconnect(mgr, websocket, symbol) ==
    LET subs == mgr.symbol_subscribers[symbol]
        m1   == [mgr EXCEPT !.active_connections = RemoveFirst(@, websocket)]
    IN  IF ~IsIn(mgr.active_connections, websocket)
        THEN [raised |-> "ValueError", mgr |-> mgr]
        ELSE IF subs = None THEN [raised |-> "", mgr |-> m1]
        ELSE IF ~IsIn(subs[1], websocket)
        THEN [raised |-> "ValueError", mgr |-> m1]
        ELSE [raised |-> "",
              mgr |-> [m1 EXCEPT !.symbol_subscribers[symbol] =
                                     Some(RemoveFirst(subs[1], websocket))]]

\* connect(websocket, symbol) after the accept
connect(mgr, websocket, symbol) ==
    [mgr EXCEPT !.active_connections = Append(@, websocket),
                !.symbol_subscribers[symbol] =
                    Some(Append(IF @ = None THEN <<>> ELSE @[1], websocket))]

\* the clean-up loop of broadcast_to_symbol (lines 51-55), from the i-th dead
\* connection on
RECURSIVE CleanUp(_, _, _, _)
CleanUp(mgr, symbol, dead_connections, i) ==
    IF i > Len(dead_connections) THEN mgr
    ELSE LET dead == dead_connections[i]
             subs == mgr.symbol_subscribers[symbol][1]
             m1   == IF IsIn(subs, dead)
                     THEN [mgr EXCEPT !.symbol_subscribers[symbol] =
                                          Some(RemoveFirst(subs, dead))]
                     ELSE mgr
             m2   == IF IsIn(m1.active_connections, dead)
                     THEN [m1 EXCEPT !.active_connections = RemoveFirst(@, dead)]
                     ELSE m1
         IN  CleanUp(m2, symbol, dead_connections, i + 1)

\* the manager, the handler tasks and the broadcast after the module is loaded
StreamInit ==
    [mgr  |-> [active_connections |-> <<>>,
               symbol_subscribers |-> [s \in StreamSymbols |-> None]],
     hpc  |-> [w \in StreamSockets |-> "idle"],
     hsym |-> [w \in StreamSockets |-> None],
     peer |-> [w \in StreamSockets |-> "open"],
     left_by |-> [w \in StreamSockets |-> "none"],
     dead_removed |-> {},
     bpc |-> "idle", bsym |-> None, bidx |-> 0, bconn |-> None,
     dead_connections |-> <<>>]

\* the handler leaves its try statement: `finally: manager.disconnect(...)`;
\* the ValueError of a second remove leaves the handler
HandlerFinally(st, w, cause) ==
    LET d == disconnect(st.mgr, w, st.hsym[w][1])
    IN  [st EXCEPT !.mgr = d.mgr,
                   !.hpc[w] = IF d.raised = "" THEN "returned" ELSE "raised",
                   !.left_by[w] = cause]

\* a client opens /ws/stream/{symbol}: connect accepts and registers, then the
\* handler awaits the send of the "connected" message
StreamConnect(w, symbol) ==
    /\ obj.hpc[w] = "idle"
    /\ obj.peer[w] = "open"
    /\ obj' = [obj EXCEPT !.mgr = connect(@, w, symbol),
                          !.hpc[w] = "greet", !.hsym[w] = Some(symbol)]
    /\ args' = Some([op |-> "connect", websocket |-> w])
    /\ UNCHANGED <<out, hist, workerVars, clientVars, fwdVars>>

\* the send of the "connected" message completes, or raises to the outer
\* `except Exception`
StreamGreet(w) ==
    /\ obj.hpc[w] = "greet"
    /\ obj' = IF obj.peer[w] = "open" THEN [obj EXCEPT !.hpc[w] = "receive"]
              ELSE HandlerFinally(obj, w, "send_failed")
    /\ args' = Some([op |-> "greet", websocket |-> w])
    /\ UNCHANGED <<out, hist, workerVars, clientVars, fwdVars>>

\* receive_text returns a JSON text: the ack is sent (awaited)
StreamMessage(w) ==
    /\ obj.hpc[w] = "receive"
    /\ obj.peer[w] = "open"
    /\ obj' = [obj EXCEPT !.hpc[w] = "reply"]
    /\ args' = Some([op |-> "message", websocket |-> w])
    /\ UNCHANGED <<out, hist, workerVars, clientVars, fwdVars>>

\* the send of the ack or of the error message completes, or raises: from the
\* try body into `except Exception` and its send, from that send to the outer
\* `except Exception`
StreamReply(w) ==
    /\ obj.hpc[w] = "reply"
    /\ obj' = IF obj.peer[w] = "open" THEN [obj EXCEPT !.hpc[w] = "receive"]
              ELSE HandlerFinally(obj, w, "send_failed")
    /\ args' = Some([op |-> "reply", websocket |-> w])
    /\ UNCHANGED <<out, hist, workerVars, clientVars, fwdVars>>

\* receive_text raises WebSocketDisconnect: `manager.disconnect(...); break`,
\* and then the finally clause.  A ValueError of the first disconnect goes to
\* the outer `except Exception`, which logs it.
StreamDisconnected(w) ==
    /\ obj.hpc[w] = "receive"
    /\ obj.peer[w] = "gone"
    /\ LET d == disconnect(obj.mgr, w, obj.hsym[w][1])
       IN  obj' = HandlerFinally([obj EXCEPT !.mgr = d.mgr], w, "WebSocketDisconnect")
    /\ args' = Some([op |-> "disconnected", websocket |-> w])
    /\ UNCHANGED <<out, hist, workerVars, clientVars, fwdVars>>

\* the client goes away
StreamPeerGone(w) ==
    /\ obj.hpc[w] # "idle"
    /\ obj.peer[w] = "open"
    /\ obj' = [obj EXCEPT !.peer[w] = "gone"]
    /\ args' = Some([op |-> "peer_gone", websocket |-> w])
    /\ UNCHANGED <<out, hist, workerVars, clientVars, fwdVars>>

\* broadcast_to_symbol: the for loop takes the next socket of the live list,
\* or ends and the clean-up loop runs (it has no await)
StreamBroadcastNext(st, i) ==
    LET subs == st.mgr.symbol_subscribers[st.bsym[1]][1]
    IN  IF i < Len(subs)
        THEN [st EXCEPT !.bconn = Some(subs[i + 1]), !.bidx = i + 1, !.bpc = "send"]
        ELSE [st EXCEPT !.mgr = CleanUp(st.mgr, st.bsym[1], st.dead_connections, 1),
                        !.dead_removed =
                            @ \cup {st.dead_connections[k] :
                                       k \in 1..Len(st.dead_connections)},
                        !.bconn = None, !.bidx = i, !.bpc = "idle"]

\* broadcast_to_symbol(symbol, message) is called
StreamBroadcast(symbol) ==
    /\ obj.bpc = "idle"
    /\ obj' = IF obj.mgr.symbol_subscribers[symbol] = None THEN obj
              ELSE StreamBroadcastNext([obj EXCEPT !.bsym = Some(symbol),
                                                   !.dead_connections = <<>>], 0)
    /\ args' = Some([op |-> "broadcast", websocket |-> symbol])
    /\ UNCHANGED <<out, hist, workerVars, clientVars, fwdVars>>

\* send_json completes, or raises and the socket is noted as dead
StreamSend ==
    /\ obj.bpc = "send"
    /\ obj' = IF obj.peer[obj.bconn[1]] = "open"
              THEN StreamBroadcastNext(obj, obj.bidx)
              ELSE StreamBroadcastNext(
                       [obj EXCEPT !.dead_connections = Append(@, obj.bconn[1])],
                       obj.bidx)
    /\ args' = Some([op |-> "send", websocket |-> obj.bconn[1]])
    /\ UNCHANGED <<out, hist, workerVars, clientVars, fwdVars>>

InitStream ==
    /\ InitWorker({"A"})
    /\ fwd_in = None
    /\ fwd_out = None
    /\ obj = StreamInit
    /\ args = None
    /\ out = None
    /\ hist = <<>>

NextStream ==
    \/ \E w \in StreamSockets, symbol \in StreamSymbols : StreamConnect(w, symbol)
    \/ \E w \in StreamSockets : StreamGreet(w)
    \/ \E w \in StreamSockets : StreamMessage(w)
    \/ \E w \in StreamSockets : StreamReply(w)
    \/ \E w \in StreamSockets : StreamDisconnected(w)
    \/ \E w \in StreamSockets : StreamPeerGone(w)
    \/ \E symbol \in StreamSymbols : StreamBroadcast(symbol)
    \/ StreamSend

SpecStream == InitStream /\ [][NextStream]_vars

-----------------------------------------------------------------------------
(* SymbolProcessor.process driven on its own: one processor on a provider  *)
(* that always answers, over a stream of closes whose value changes a      *)
(* bounded number of times.  hist keeps what each tick was fed and what it *)
(* returned.                                                               *)

MaxProcTicks == 54

MaxProcChanges == 1

ProcCloses == {1, 2, 4}

\* the fields of the MarketState a tick returned that the ticks are compared on
TickSummary(bar, st) ==
    [close |-> bar.close, returns |-> st.returns, squeeze |-> st.bb.squeeze,
     ichi_cloud_state |-> st.ichi_cloud_state, annihilation |-> st.annihilation,
     lambda_t |-> st.lambda_t]

ClosesOf(ticks) == [i \in 1..Len(ticks) |-> ticks[i].close]

\* one call of process(provider): lines 31-57
ProcCall ==
    /\ Len(hist) < MaxProcTicks
    /\ obj.sigma.var_t[2] <= MaxVarDen
    /\ \E close \in ProcCloses, q \in Quotes :
         LET bar == BarOf(Len(hist) + 1, close, 3)
             st  == ProcessQuotesState("A", ProcessBarLocals(obj, bar), q)
         IN  /\ Changes(Append(ClosesOf(hist), close)) <= MaxProcChanges
             /\ args' = Some(bar)
             /\ out' = Some(st)
             /\ obj' = [ProcessBarState(obj, bar) EXCEPT
                            !.part_s = ProcessParticle(q).s]
             /\ hist' = Append(hist, TickSummary(bar, st))
    /\ UNCHANGED <<workerVars, clientVars, fwdVars>>

InitProc ==
    /\ InitWorker({"A"})
    /\ fwd_in = None
    /\ fwd_out = None
    /\ obj = ProcessorInit
    /\ args = None
    /\ out = None
    /\ hist = <<>>

NextProc == ProcCall

SpecProc == InitProc /\ [][NextProc]_vars

-----------------------------------------------------------------------------
(* ForwardMap.compute as a function of its inputs and of settings.forward *)

LamDen == 4

MaxHorizon == 6

Lambdas == {Norm(<<a, LamDen>>) : a \in 0..LamDen}

Thresholds == {<<0, 1>>, <<1, 2>>, <<19, 20>>, <<1, 1>>, <<2, 1>>}

Fields == {[k \in 1..GridLen |-> c] : c \in {"in6", "nan"}}

\* lambda = 0.5, max_horizon = 20, mass_threshold = 0.95
Scenario6 ==
    [lam |-> <<1, 2>>, max_h |-> 20, thr |-> <<19, 20>>,
     l |-> [k \in 1..GridLen |-> "in6"]]

FwdInputs ==
    {[lam |-> lm, max_h |-> h, thr |-> t, l |-> f] :
        lm \in Lambdas, h \in 0..MaxHorizon, t \in Thresholds, f \in Fields}
    \cup {Scenario6}

FwdCall ==
    \E in \in FwdInputs :
        /\ fwd_in' = Some(in)
        /\ fwd_out' = Some(ForwardMapCompute(in.lam, in.l, in.max_h, in.thr))
        /\ UNCHANGED <<workerVars, clientVars, unitVars>>

InitFwd ==
    /\ InitWorker({"A"})
    /\ fwd_in = None
    /\ fwd_out = None
    /\ InitUnit

NextFwd == FwdCall

SpecFwd == InitFwd /\ [][NextFwd]_vars

-----------------------------------------------------------------------------
(* A ForwardMap object over a sequence of compute calls *)

MaxFwdCalls == 3

\* the fields set by __init__ together with settings.forward['mass_threshold']
ForwardConfigs ==
    {[beta_L |-> 1, max_h |-> h, mass_threshold |-> t] :
        h \in {2, MaxHorizon}, t \in {<<1, 2>>, <<19, 20>>}}

\* a compute that kept the number of horizons it ran as the new max_h
ForwardMapAfterKeepsHorizon(self, current_lambda, l_total_func) ==
    [self EXCEPT !.max_h = Len(ForwardMapCompute(current_lambda, l_total_func, self.max_h, self.mass_threshold).map)]

\* the object after compute(...): results, survival, cum_mass, z_grid,
\* l_values, h0_dist and h_zk are locals, no attribute is assigned
ForwardMapAfter(self, current_lambda, l_total_func) == self

FwdSeqCall ==
    /\ Len(hist) < MaxFwdCalls
    /\ \E lam \in Lambdas, l \in Fields :
         LET res == ForwardMapCompute(lam, l, obj.max_h, obj.mass_threshold)
         IN  /\ args' = Some([lam |-> lam, l |-> l])
             /\ out' = Some(res)
             /\ obj' = ForwardMapAfter(obj, lam, l)
             /\ hist' = Append(hist, [self |-> obj, lam |-> lam, l |-> l, result |-> res])
    /\ UNCHANGED <<workerVars, clientVars, fwdVars>>

InitFwdSeq ==
    /\ InitWorker({"A"})
    /\ fwd_in = None
    /\ fwd_out = None
    /\ obj \in ForwardConfigs
    /\ args = None
    /\ out = None
    /\ hist = <<>>

NextFwdSeq == FwdSeqCall

SpecFwdSeq == InitFwdSeq /\ [][NextFwdSeq]_vars

-----------------------------------------------------------------------------
(* Properties of the worker loop under provider, store and socket faults   *)
(* (Spec)                                                                  *)

ProviderFailures == {"bar_absent", "bar_raise", "quotes_absent", "quotes_raise"}

\* C1: when get_latest_bar or get_quotes returns nothing or raises, the tick is
\* skipped: no row is persisted, the processor of that symbol is as it was
\* before the tick, and the worker goes on to the next symbol and cycle.
C1_ProviderFailureSkipsTick ==
    exc \in ProviderFailures =>
        /\ wpc # "dead"
        /\ procs[tick_pre.symbol] = tick_pre.proc
        /\ Len(db) = tick_pre.rows

\* C1: get_quotes has returned nothing after the bar was folded in
C1_QuotesAbsentAfterBar == exc = "quotes_absent" /\ tick # None

\* C2: when send_text to one subscriber fails during a broadcast, the worker
\* keeps running and that subscriber is no longer in the subscription set.
C2_SendFailureNonFatal ==
    exc = "send" =>
        /\ wpc # "dead"
        /\ \A i \in 1..Len(active_connections) :
               active_connections[i] # connection[1]

\* C2: a send failed while another subscriber was still to be served
C2_SendFailedWithOthersWaiting ==
    exc = "send" /\ bidx < Len(active_connections)

\* C3: when the commit of a snapshot fails, that snapshot is still broadcast
\* and the worker goes on.
C3_CommitFailureStillBroadcasts ==
    exc = "commit" =>
        /\ wpc # "dead"
        /\ msg = Some(JsonDumps(CurSym, state[1]))

\* C3: a commit failed with a subscriber connected
C3_CommitFailedWithSubscriber ==
    exc = "commit" /\ Len(active_connections) > 0

\* C4: a client that connected for symbol Y receives only messages whose
\* symbol is Y.
C4_PublishedOnlyToSubscribersOfSymbol ==
    \A c \in Clients :
        csym[c] # None =>
            \A i \in 1..Len(inbox[c]) : inbox[c][i].symbol = csym[c][1]

\* C4: a connected client has received a message
C4_ClientReceived ==
    \E c \in Clients : csym[c] # None /\ Len(inbox[c]) > 0

\* C5: a provider call that never completes is cut off by a timeout, so the
\* worker suspended in it always has a next step to take.
C5_HungCallTimesOut == wpc = "hung" => ENABLED WorkerStep

\* C5: a provider call of the second symbol never completes
C5_SecondSymbolHung == wpc = "hung" /\ si = 2

\* C6: for every symbol, the committed snapshots carry non-decreasing
\* timestamps, in commit order, whatever bars the provider returns.
C6_TimestampsNonDecreasing ==
    \A i, j \in 1..Len(db) :
        (i < j /\ db[i].symbol = db[j].symbol) =>
            db[i].timestamp <= db[j].timestamp

\* C6: two snapshots of one symbol have been committed
C6_TwoSnapshotsOfOneSymbol ==
    \E i, j \in 1..Len(db) : i < j /\ db[i].symbol = db[j].symbol

-----------------------------------------------------------------------------
(* Properties of ForwardMap.compute (SpecFwd) *)

RECURSIVE SumMass(_)
SumMass(entries) ==
    IF entries = <<>> THEN <<0, 1>>
    ELSE RatAdd(SumMass(SubSeq(entries, 1, Len(entries) - 1)),
                entries[Len(entries)].mass)

RECURSIVE RatPow(_, _)
RatPow(q, n) == IF n = 0 THEN <<1, 1>> ELSE RatMul(q, RatPow(q, n - 1))

\* lambda (1-lambda)^(k-1)
GeometricMass(lam, k) == RatMul(lam, RatPow(RatOneMinus(lam), k - 1))

\* 1 - (1-lambda)^k, the sum of the first k geometric masses
GeometricCum(lam, k) == RatOneMinus(RatPow(RatOneMinus(lam), k))

\* the least k in 1..max_h whose cumulative mass reaches thr, or max_h
StoppingHorizon(lam, max_h, thr) ==
    LET hits == {k \in 1..max_h : RatGeq(GeometricCum(lam, k), thr)}
    IN  IF hits = {} THEN max_h
        ELSE CHOOSE k \in hits : \A j \in hits : k <= j

\* C7: for lambda in [0, 1], any max_horizon >= 0 and any mass_threshold, the
\* masses returned sum to at most 1 and cum_mass is the sum of the masses of
\* the entries returned.
C7_MassesSumToCumMassAtMostOne ==
    fwd_out # None =>
        /\ RatGeq(<<1, 1>>, SumMass(fwd_out[1].map))
        /\ fwd_out[1].cum_mass = SumMass(fwd_out[1].map)

\* C7: a call that ran to max_horizon without reaching the threshold
C7_RanToMaxHorizon ==
    /\ fwd_out # None
    /\ fwd_in[1].max_h >= 3
    /\ Len(fwd_out[1].map) = fwd_in[1].max_h
    /\ fwd_in[1].lam[1] > 0
    /\ ~RatGeq(fwd_out[1].cum_mass, fwd_in[1].thr)

\* C8: the entries are those of the horizons k = 1..n in order, entry k with
\* mass lambda (1-lambda)^(k-1), where n is the least k <= max_horizon whose
\* cumulative mass is >= mass_threshold, or max_horizon; lambda = 1/2,
\* max_horizon = 20, mass_threshold = 0.95 gives the five masses 1/2 .. 1/32.
C8_GeometricEntriesUpToStoppingHorizon ==
    fwd_out # None =>
        LET in  == fwd_in[1]
            map == fwd_out[1].map
            n   == StoppingHorizon(in.lam, in.max_h, in.thr)
        IN  /\ Len(map) = n
            /\ \A k \in 1..n :
                   /\ map[k].k = k
                   /\ map[k].mass = GeometricMass(in.lam, k)
            /\ in = Scenario6 =>
                   [k \in 1..Len(map) |-> map[k].mass]
                       = <<(<<1, 2>>), (<<1, 4>>), (<<1, 8>>), (<<1, 16>>), (<<1, 32>>)>>

\* C8: the call with lambda = 1/2, max_horizon = 20, mass_threshold = 0.95
\* returned five entries
C8_ScenarioReturned ==
    /\ fwd_in = Some(Scenario6)
    /\ Len(fwd_out[1].map) = 5

-----------------------------------------------------------------------------
(* Properties of the liquidity field and of the published messages over a  *)
(* run that fills the Bollinger window (SpecLong)                          *)

\* C9: for sigma > 0 and the components process builds from Technicals.update,
\* compute_field returns 33 values, each finite and in [-6, 6].
C9_FieldFiniteInRange ==
    tick # None =>
        /\ Len(tick[1].l_field) = 33
        /\ \A k \in 1..Len(tick[1].l_field) : tick[1].l_field[k] = "in6"

\* C9: compute_field ran on a full Bollinger window whose lower band is
\* negative
C9_LowerBandNegative ==
    /\ tick # None
    /\ Len(procs[CurSym].tech.bb_prices) = bb_period
    /\ BBLowerSign(tick[1].t_res.bb) < 0

JsonFinite == {"number", "null"}

\* C10: no published message holds a non-finite number: sigma, lambda, the
\* masses and every dist value are written as a number or as null.
C10_NoNonFiniteOnTheWire ==
    \A c \in Clients :
        \A i \in 1..Len(inbox[c]) :
            LET m == inbox[c][i]
            IN  /\ m.sigma \in JsonFinite
                /\ m.lambda \in JsonFinite
                /\ m.map.mass \in JsonFinite
                /\ \A k \in DOMAIN m.map.dist : m.map.dist[k] \in JsonFinite

\* C10: a subscriber received the message of a snapshot whose field is nan
C10_NanSnapshotSent ==
    \E c \in Clients :
        /\ Len(inbox[c]) > 0
        /\ state # None
        /\ \E k \in DOMAIN state[1].pool_field : state[1].pool_field[k] = "nan"

-----------------------------------------------------------------------------
(* Properties of Technicals.update (SpecSqueeze, SpecTech) *)

\* C11: squeeze is true exactly when the width buffer, the current width
\* included, holds at least 50 widths and the current width is <= the 15th
\* percentile of the buffer.
C11_SqueezeFromFiftyWidths ==
    out # None =>
        out[1].bb.squeeze =
            (/\ Len(obj.bb_widths) >= 50
             /\ AtOrBelowPercentile15(obj.bb_widths, out[1].bb.width2))

\* C11: the buffer holds exactly 50 widths and the current one is at or
\* below their 15th percentile
C11_FiftyWidthsAtPercentile ==
    /\ out # None
    /\ Len(obj.bb_widths) = 50
    /\ AtOrBelowPercentile15(obj.bb_widths, out[1].bb.width2)

\* the last n elements of a sequence
LastN(s, n) == SubSeq(s, Len(s) - n + 1, Len(s))

RECURSIVE SumSqDevFrom(_, _, _)
SumSqDevFrom(w, i, total) ==
    IF i > Len(w) THEN 0
    ELSE (Len(w) * w[i] - total) * (Len(w) * w[i] - total)
             + SumSqDevFrom(w, i + 1, total)

\* the mean of the squared deviations of w from its mean
Variance(w) ==
    Norm(<<SumSqDevFrom(w, 1, SumSeq(w)), Len(w) * Len(w) * Len(w)>>)

\* C12: for positive prices the bands are ordered, lb <= mb <= ub (ub - mb =
\* mb - lb = 2 sd with sd the root of a variance >= 0), and the width is
\* >= 0; before the 20th price mb = ub = lb = price and width = 0; from the
\* 20th on, mb and sd are the mean and deviation of exactly the last 20 prices.
C12_BandsOrderedOverLastTwenty ==
    out # None =>
        LET n  == Len(hist)
            bb == out[1].bb
        IN  /\ bb.sd2[1] >= 0 /\ bb.sd2[2] > 0
            /\ bb.mb[1] > 0 /\ bb.mb[2] > 0
            /\ bb.width2[1] >= 0 /\ bb.width2[2] > 0
            /\ n < 20 =>
                   /\ bb.mb = <<args[1].price, 1>>
                   /\ bb.sd2 = <<0, 1>>
                   /\ bb.width2 = <<0, 1>>
            /\ n >= 20 =>
                   /\ bb.mb = Norm(<<SumSeq(LastN(hist, 20)), 20>>)
                   /\ bb.sd2 = Variance(LastN(hist, 20))
                   /\ RatMul(bb.width2, RatMul(bb.mb, bb.mb))
                          = RatMul(<<16, 1>>, bb.sd2)

\* C12: more than 20 prices have been seen and the last 20 differ
C12_WindowSlidVaried ==
    /\ out # None
    /\ Len(hist) > 20
    /\ out[1].bb.sd2[1] > 0
    /\ hist[1] # hist[Len(hist) - 19]

\* the price changes of a stream
ChangesOf(prices) == [i \in 1..(Len(prices) - 1) |-> prices[i + 1] - prices[i]]

\* C13: the normalized RSI is in [-1, 1]; it is 0 until 14 price changes have
\* been seen; from then on it is +1 when the last 14 changes hold no loss and
\* some gain, -1 when they hold no gain and some loss, 0 when all are zero.
C13_RsiNormalizedCases ==
    out # None =>
        LET rsi  == out[1].rsi
            chg  == ChangesOf(hist)
            last == IF Len(chg) >= 14 THEN LastN(chg, 14) ELSE chg
            gain == \E i \in 1..Len(last) : last[i] > 0
            loss == \E i \in 1..Len(last) : last[i] < 0
        IN  /\ rsi[2] > 0 /\ -rsi[2] <= rsi[1] /\ rsi[1] <= rsi[2]
            /\ Len(chg) < 14 => rsi = <<0, 1>>
            /\ Len(chg) >= 14 =>
                   /\ (gain /\ ~loss) => rsi = <<1, 1>>
                   /\ (loss /\ ~gain) => rsi = <<-1, 1>>
                   /\ (~gain /\ ~loss) => rsi = <<0, 1>>

\* C13: the last 14 changes hold a gain and no loss
C13_GainsOnly ==
    /\ out # None
    /\ Len(hist) >= 15
    /\ \E i \in 1..14 : LastN(ChangesOf(hist), 14)[i] > 0
    /\ \A i \in 1..14 : LastN(ChangesOf(hist), 14)[i] >= 0

-----------------------------------------------------------------------------
(* Properties of Ichimoku.update (SpecIchi) *)

\* the highest high and the lowest low of the n bars that end at bar i
HighOf(bars, i, n) ==
    LET from == IF i > n THEN i - n + 1 ELSE 1
    IN  CHOOSE h \in {bars[j].high : j \in from..i} :
            \A j \in from..i : bars[j].high <= h

LowOf(bars, i, n) ==
    LET from == IF i > n THEN i - n + 1 ELSE 1
    IN  CHOOSE l \in {bars[j].low : j \in from..i} :
            \A j \in from..i : bars[j].low >= l

\* (span_a_now, span_b_now) of bar i, both times four
PairAt(bars, i) ==
    <<(HighOf(bars, i, 9) + LowOf(bars, i, 9))
          + (HighOf(bars, i, 26) + LowOf(bars, i, 26)),
      2 * (HighOf(bars, i, 52) + LowOf(bars, i, 52))>>

\* C14: the cloud pair used for state and thick is the pair computed 26 bars
\* before the current bar, or the current bar's pair while the history holds
\* fewer than 26 entries; state is +1 above the cloud, -1 below it, else 0.
C14_CloudOfTwentySixBarsBefore ==
    out # None =>
        LET n     == Len(hist)
            cloud == <<out[1].span_a4, out[1].span_b4>>
        IN  /\ n < 26 => cloud = PairAt(hist, n)
            /\ n > 26 => cloud = PairAt(hist, n - 26)
            /\ out[1].state =
                   (IF 4 * args[1].close > Max2(cloud[1], cloud[2]) THEN 1
                    ELSE IF 4 * args[1].close < Min2(cloud[1], cloud[2]) THEN -1
                    ELSE 0)
            /\ out[1].thick4 = Abs(cloud[1] - cloud[2])

\* C14: 27 bars have been seen and the pairs of the first two differ
C14_TwentySevenBars ==
    /\ out # None
    /\ Len(hist) = 27
    /\ PairAt(hist, 1) # PairAt(hist, 2)

-----------------------------------------------------------------------------
(* Properties of SigmaCalculator.update (SpecSigma) *)

\* alpha = 2/(alpha_decay + 1)
Alpha == Norm(<<2, alpha_decay + 1>>)

\* r_1^2 after the first return, then (1 - alpha) v + alpha r^2
RECURSIVE EwmaVariance(_)
EwmaVariance(rs) ==
    LET r == rs[Len(rs)]
    IN  IF Len(rs) = 1 THEN <<r * r, 1>>
        ELSE RatAdd(RatMul(RatOneMinus(Alpha), EwmaVariance(SubSeq(rs, 1, Len(rs) - 1))),
                    RatMul(Alpha, <<r * r, 1>>))

\* C15: the returned sigma is >= 1e-6 (it is the floor, or the root of a
\* variance that is not below the floor), the stored variance is >= 0, and it
\* is r^2 after the first call and (1 - alpha) v + alpha r^2 after each later one.
C15_SigmaFlooredEwma ==
    out # None =>
        /\ out[1].floored \/ ~BelowMinSigma(out[1].var)
        /\ out[1].var = obj.var_t
        /\ obj.var_t[1] >= 0 /\ obj.var_t[2] > 0
        /\ obj.var_t = EwmaVariance(hist)

\* C15: a first return that is not zero, then later returns
C15_FirstThenLater ==
    /\ out # None
    /\ Len(hist) >= 3
    /\ hist[1] # 0
    /\ hist[Len(hist)] # 0

-----------------------------------------------------------------------------
(* Properties of HazardModel.compute (SpecHazard) *)

\* the regime index: 1 for regime +1, 2 for regime -1, 0 otherwise
RegimeIndex(regime) == CASE regime = 1 -> 1 [] regime = -1 -> 2 [] OTHER -> 0

\* C16: with the other inputs fixed, lambda(squeeze = true) >=
\* lambda(squeeze = false) if and only if the squeeze coefficient is >= 0; the
\* intercept is intercepts[1] for regime +1, intercepts[2] for -1, else
\* intercepts[0].
C16_SqueezeRaisesIffCoefficientNonNegative ==
    out # None =>
        /\ (out[1].squeeze >= out[1].plain) <=> (args[1].cfg.coeffs.squeeze >= 0)
        /\ out[1].r_idx = RegimeIndex(args[1].regime)
        /\ out[1].logit = args[1].cfg.intercepts[RegimeIndex(args[1].regime) + 1]
                              + args[1].A + args[1].P_L + args[1].pool

\* C16 as amended: lambda(squeeze = true) >= lambda(squeeze = false) when the
\* coefficient is >= 0, and <= when it is <= 0 (the two are equal where both
\* round to 1.0 or to 0.0); the intercepts as stated.
C16_SqueezeMonotoneInCoefficient ==
    out # None =>
        /\ args[1].cfg.coeffs.squeeze >= 0 => out[1].squeeze >= out[1].plain
        /\ args[1].cfg.coeffs.squeeze <= 0 => out[1].squeeze <= out[1].plain
        /\ (args[1].cfg.coeffs.squeeze < 0 /\ out[1].squeeze = out[1].plain)
               => out[1].plain \in {37, -710}
        /\ out[1].r_idx = RegimeIndex(args[1].regime)
        /\ out[1].logit = args[1].cfg.intercepts[RegimeIndex(args[1].regime) + 1]
                              + args[1].A + args[1].P_L + args[1].pool

\* C16: a negative squeeze coefficient at a logit where lambda is 1.0 either way
C16_NegativeCoefficientSaturated ==
    /\ out # None
    /\ args[1].cfg.coeffs.squeeze < 0
    /\ args[1].regime = 1
    /\ out[1].squeeze = out[1].plain

-----------------------------------------------------------------------------
(* Properties of LiquidityField.compute_field (SpecLiq) *)

\* the weight a component is given: the configured group weight for 'vwap'
\* and 'bb', its own weight for any other key
ComponentWeight10(components, k) ==
    CASE k = "vwap" -> liquidity_weights10.vwap
      [] k = "bb" -> liquidity_weights10.bb
      [] OTHER -> components[k].weight10

WithoutKey(components, k) == [j \in DOMAIN components \ {k} |-> components[j]]

\* C17: every entry of the components mapping, whatever its key, contributes
\* its weighted kernel to the unnormalized field; adding a component with a
\* non-zero weight changes the accumulator.
C17_EveryComponentContributes ==
    out # None =>
        \A k \in DOMAIN args[1] :
            ComponentWeight10(args[1], k) # 0 =>
                /\ \E t \in out[1] : t.key = k
                /\ LTotalTerms(WithoutKey(args[1], k)) # out[1]

\* C17: a mapping with 'vwap', 'bb' and a weighted 'kijun' was passed
C17_KijunPassed ==
    /\ out # None
    /\ DOMAIN args[1] = {"vwap", "bb", "kijun"}
    /\ args[1]["kijun"].weight10 # 0

-----------------------------------------------------------------------------
(* Properties of DealerFilter.update (SpecDealer) *)

\* every update so far had z_features summing to a positive value and
\* abs_gex_norm > 0
PositiveRun ==
    \A i \in 1..Len(hist) :
        SumSeq(hist[i].z_features) > 0 /\ hist[i].gex_abs_norm > 0

\* the feedback is 0.3 times the feedback of the same call without is_stale
StaleIsThreeTenths(before, call, feedback) ==
    LET plain == DealerUpdate(before, call.z_features, call.gex_abs_norm, FALSE).ret.feedback
    IN  /\ feedback.signed = plain.signed
        /\ feedback.q_logit = plain.q_logit
        /\ feedback.factor10 * 10 = (IF call.is_stale THEN 3 ELSE 10) * plain.factor10

\* C18: from a fresh DealerFilter, after each of any number of consecutive
\* updates with a positive z_features sum and abs_gex_norm > 0, p is strictly
\* below 1/2 and not above its previous value, feedback is negative, q is
\* above its value at p = 1/2, and with is_stale the feedback is 0.3 times
\* the non-stale feedback.
C18_PositiveEvidenceLowersP ==
    (out # None /\ PositiveRun) =>
        LET n == Len(hist)
        IN  /\ RatLess(out[1].p, <<1, 2>>)
            /\ ~RatLess(hist[n].self.p, out[1].p)
            /\ out[1].feedback.signed[1] < 0
            /\ RatLess(<<1, 1>>, out[1].q_logit)
            /\ StaleIsThreeTenths(hist[n].self, hist[n], out[1].feedback)

\* stay_prob >= flip_prob and stay_prob + flip_prob <= 1
PersistentConfig(self) ==
    /\ RatGeq(self.stay_prob, self.flip_prob)
    /\ RatGeq(<<1, 1>>, RatAdd(self.stay_prob, self.flip_prob))

\* no update so far had a smaller z_features sum than the one before it
EvidenceNeverDrops ==
    \A i \in 2..Len(hist) :
        SumSeq(hist[i].z_features) >= SumSeq(hist[i - 1].z_features)

\* C18 as amended: for stay_prob >= flip_prob and stay_prob + flip_prob <= 1,
\* after each such update p is strictly below 1/2, feedback is negative and
\* q is above its value at p = 1/2; p is not above its previous value as
\* long as the z_features sum has not dropped from one update to the next;
\* with is_stale the feedback is 0.3 times the non-stale feedback.
C18_PositiveEvidenceKeepsPBelowHalf ==
    (out # None /\ PositiveRun /\ PersistentConfig(obj)) =>
        LET n == Len(hist)
        IN  /\ RatLess(out[1].p, <<1, 2>>)
            /\ EvidenceNeverDrops => ~RatLess(hist[n].self.p, out[1].p)
            /\ out[1].feedback.signed[1] < 0
            /\ RatLess(<<1, 1>>, out[1].q_logit)
            /\ StaleIsThreeTenths(hist[n].self, hist[n], out[1].feedback)

\* C18: three consecutive positive updates, the last one stale, under a
\* persistent configuration
C18_ThreePositiveUpdates ==
    /\ out # None
    /\ PositiveRun
    /\ PersistentConfig(obj)
    /\ Len(hist) >= 3
    /\ args[1].is_stale
    /\ EvidenceNeverDrops
    /\ SumSeq(hist[Len(hist)].z_features) > SumSeq(hist[1].z_features)

-----------------------------------------------------------------------------
(* Properties of ParticleMapper.update (SpecPart) *)

\* 0 <= max(0, 0.5 ln(s.ratio) - s.cons) <= 0.5 ln(ask/bid): the maximum
\* with 0 gives the lower bound; the upper bound asks for ask/bid >= 1, for a
\* ratio that is not above ask/bid and for a consumption that is not negative
BetweenZeroAndS0(s, ask, bid) ==
    /\ ask >= bid
    /\ RatGeq(Norm(<<ask, bid>>), s.ratio)
    /\ s.cons[1] >= 0

\* C19: for 0 < bid <= ask and every other input, the returned s is in
\* [0, s0] with s0 = 0.5 ln(ask/bid), inertia is > 0, annihilation =
\* 1 - s/(s0 + 1e-6) is in [0, 1], and the s retained by the mapper is the
\* returned s.
C19_ParticleWithinBounds ==
    (out # None /\ 0 < args[1].bid /\ args[1].bid <= args[1].ask) =>
        /\ BetweenZeroAndS0(out[1].s, args[1].ask, args[1].bid)
        /\ out[1].inertia[1] > 0
        /\ out[1].inertia[2] > 0
        /\ out[1].annihilation.s0 = Norm(<<args[1].ask, args[1].bid>>)
        /\ BetweenZeroAndS0(out[1].annihilation.s, args[1].ask, args[1].bid)
        /\ obj = out[1].s

\* C19: a call with a negative denominator (floored) and a non-zero pressure
C19_FlooredDenominatorUnderPressure ==
    /\ out # None
    /\ args[1].bid < args[1].ask
    /\ epsilon_micro + args[1].spread + args[1].microvol - args[1].quote_size < 0
    /\ out[1].pressure10 # 0

-----------------------------------------------------------------------------
(* Properties of a ForwardMap over several calls (SpecFwdSeq) *)

-----------------------------------------------------------------------------
(* Properties of the VWAP of Technicals.update (SpecVwap) *)

RECURSIVE SumPriceVolume(_)
SumPriceVolume(calls) ==
    IF calls = <<>> THEN 0
    ELSE Head(calls).price * Head(calls).vol + SumPriceVolume(Tail(calls))

RECURSIVE SumVolume(_)
SumVolume(calls) ==
    IF calls = <<>> THEN 0 ELSE Head(calls).vol + SumVolume(Tail(calls))

PricesSeen(calls) == {calls[i].price : i \in 1..Len(calls)}

\* C21: with volumes >= 0 the returned vwap is (sum of price * volume) /
\* (sum of volume) over all updates so far when the volume sum is > 0, and
\* the current price when it is 0; the sums are never reset, and the vwap
\* lies between the lowest and the highest price seen.
C21_VwapOverAllUpdates ==
    out # None =>
        /\ obj.vwap_num = SumPriceVolume(hist)
        /\ obj.vwap_denom = SumVolume(hist)
        /\ SumVolume(hist) > 0
               => out[1].vwap = Norm(<<SumPriceVolume(hist), SumVolume(hist)>>)
        /\ SumVolume(hist) = 0 => out[1].vwap = <<args[1].price, 1>>
        /\ \E lo, hi \in PricesSeen(hist) :
               /\ \A q \in PricesSeen(hist) : lo <= q /\ q <= hi
               /\ RatGeq(out[1].vwap, <<lo, 1>>)
               /\ RatGeq(<<hi, 1>>, out[1].vwap)

\* C21: a zero-volume update first, then different prices with volume
C21_ZeroVolumeThenTraded ==
    /\ out # None
    /\ Len(hist) >= 3
    /\ hist[1].vol = 0
    /\ hist[2].vol > 0
    /\ hist[3].vol > 0
    /\ hist[2].price # hist[3].price

-----------------------------------------------------------------------------
(* Properties of the REST endpoints (SpecApi) *)

\* no market_bars row of the symbol was stored when the request arrived
NoBarStored == CountRows(hist[1].market_bars[args[1].symbol]) = 0

\* C22: analytics and compute answer 404 when no bar of the symbol is
\* stored, ingest answers 404 when none was fetched, and in these cases the
\* database is left as it was; the list endpoints bars, indicators and
\* collapse-field then answer 200 with an empty list.
C22_NoBarIs404AndNoWrite ==
    out # None =>
        /\ (args[1].endpoint \in {"analytics", "compute"} /\ NoBarStored)
               => (out[1].status = 404 /\ obj = hist[1])
        /\ (args[1].endpoint = "ingest" /\ args[1].window[2] < args[1].window[1])
               => (out[1].status = 404 /\ obj = hist[1])
        /\ (args[1].endpoint \in {"market_bars", "technical_indicators", "collapse_field"}
                /\ NoBarStored)
               => (out[1].status = 200 /\ CountRows(out[1].rows) = 0 /\ obj = hist[1])

\* C22: a request for the symbol without bars while the other symbol has
\* bars, indicators and a collapse field
C22_OtherSymbolHasRows ==
    /\ out # None
    /\ args[1].symbol = "B"
    /\ args[1].endpoint \in {"ingest", "compute", "technical_indicators"}
    /\ CountRows(obj.market_bars["A"]) > 0
    /\ CountRows(obj.technical_indicators["A"]) > 0
    /\ CountRows(obj.collapse_field["A"]) > 0

-----------------------------------------------------------------------------
(* Properties of compute_forward_map (SpecFwdMap) *)

RECURSIVE RatSum(_, _)
RatSum(p, k) == IF k = 0 THEN <<0, 1>> ELSE RatAdd(p[k], RatSum(p, k - 1))

\* C23: for every current_z, L_values (the all-zero field included) and
\* lambda_t, compute_forward_map returns one probability map per horizon that
\* sums to 1 and one confidence-interval set per horizon whose lower_z and
\* upper_z are points of the z-grid.
C23_ForwardMapNormalizedOnGrid ==
    out # None =>
        /\ out[1].raised = ""
        /\ Len(out[1].probability_maps) = Len(tau_horizons)
        /\ Len(out[1].confidence_intervals) = Len(tau_horizons)
        /\ \A i \in 1..Len(out[1].probability_maps) :
               RatSum(out[1].probability_maps[i], ZLen) = <<1, 1>>
        /\ \A i \in 1..Len(out[1].confidence_intervals) :
               \A level \in confidence_levels :
                   /\ \E k \in 1..ZLen :
                          out[1].confidence_intervals[i][level].lower_z = z_values[k]
                   /\ \E k \in 1..ZLen :
                          out[1].confidence_intervals[i][level].upper_z = z_values[k]

\* C23: the all-zero field with current_z at the centre of the grid and a
\* moderate lambda_t
C23_ZeroFieldPassed ==
    /\ out # None
    /\ args[1].L_values = ZeroField
    /\ args[1].current_z = 17
    /\ args[1].decay = 1

-----------------------------------------------------------------------------
(* C24: the hazard of a tick and its squeeze flag *)

\* lambda is a function of the terms of its logit: ticks with equal terms have
\* equal lambda under every settings.hazard
SameLambda(t1, t2) == t1.lambda_t = t2.lambda_t

\* C24: every tick computes lambda from its own ichimoku state, annihilation,
\* squeeze flag and pool proximity: the squeeze term of the logit is the
\* tick's squeeze flag, and two ticks of a processor that agree on the
\* ichimoku state and the annihilation and differ in the squeeze flag have
\* different lambda (for a non-zero squeeze coefficient).
C24_LambdaFollowsSqueeze ==
    /\ \A i \in 1..Len(hist) :
         hist[i].lambda_t.squeeze = (IF hist[i].squeeze THEN 1 ELSE 0)
    /\ \A i, j \in 1..Len(hist) :
         (/\ hist[i].ichi_cloud_state = hist[j].ichi_cloud_state
          /\ hist[i].annihilation = hist[j].annihilation
          /\ hist[i].squeeze # hist[j].squeeze)
             => ~SameLambda(hist[i], hist[j])

\* C24: a tick in a squeeze after a tick out of it, with the same ichimoku
\* state and annihilation
C24_SqueezeTickAfterPlainTick ==
    /\ Len(hist) >= 2
    /\ hist[Len(hist)].squeeze
    /\ ~hist[1].squeeze
    /\ hist[1].ichi_cloud_state = hist[Len(hist)].ichi_cloud_state
    /\ hist[1].annihilation = hist[Len(hist)].annihilation

-----------------------------------------------------------------------------
(* C25: the log return of a tick *)

\* C25: the first tick of a processor has log return 0, and every later tick
\* has ln(close) - ln(previous close), whatever the previous close was (1.0,
\* whose log is 0, included).
C25_ReturnIsLogDifference ==
    \A i \in 1..Len(hist) :
        hist[i].returns =
            (IF i = 1 THEN 0
             ELSE Log2(hist[i].close) - Log2(hist[i - 1].close))

\* C25: a tick whose previous close was 1.0 and whose own close is not
C25_TickAfterCloseOne ==
    /\ Len(hist) >= 2
    /\ hist[Len(hist) - 1].close = 1
    /\ hist[Len(hist)].close # 1

-----------------------------------------------------------------------------
(* C26: the processors of different symbols share no state *)

\* C26: every step of the tick of a symbol leaves the processor of every
\* other symbol (last_log, sigma, the Technicals buffers, the Ichimoku
\* queues, the particle s, the dealer p and q) as it was, in every pass.
C26_OtherProcessorsUntouched ==
    [][\A s \in DOMAIN procs : s # CurSym => procs'[s] = procs[s]]_vars

\* C26: in a later pass the tick of A has updated its processor while the
\* processor of B holds what B's earlier tick left
C26_TickOfAWhileBHasState ==
    /\ cyc >= 2
    /\ wpc = "commit"
    /\ CurSym = "A"
    /\ procs["A"].last_log # None
    /\ procs["B"].last_log # None
    /\ procs["B"] # procs["A"]

-----------------------------------------------------------------------------
(* C27: a broadcast and the handlers that run at its awaits *)

\* the sockets of a list
Registered(conns) == {conns[i] : i \in 1..Len(conns)}

\* C27: whatever the handlers do at the awaits of a broadcast, when the
\* broadcast returns, every subscriber that was registered from its start to
\* its end has received its message exactly once.  (No connect happens during
\* a broadcast here, and a closed socket never registers again: a socket
\* registered at the end was registered throughout.)
C27_BroadcastReachesEverySubscriberOnce ==
    [][(wpc = "send" /\ wpc' \in {"bar", "sleep"}) =>
          \A c \in Registered(active_connections') : Len(inbox'[c]) = 1]_vars

\* C27: a broadcast has returned after a socket it had already served was
\* removed during it, with a socket registered throughout
C27_RemovedDuringBroadcast ==
    /\ wpc = "sleep"
    /\ msg # None
    /\ \E c \in CastClients : cpc[c] = "closed" /\ Len(inbox[c]) = 1
    /\ \E c \in CastClients : cpc[c] = "open" /\ c \in Registered(active_connections)

-----------------------------------------------------------------------------
(* C28: how the /ws/stream/{symbol} handler ends *)

\* the socket is in neither list of the manager
Unregistered(mgr, w, symbol) ==
    /\ ~IsIn(mgr.active_connections, w)
    /\ mgr.symbol_subscribers[symbol] # None =>
           ~IsIn(mgr.symbol_subscribers[symbol][1], w)

\* C28: a handler that has ended, after its client disconnected or after
\* broadcast_to_symbol removed its socket as dead, has finished without
\* raising and its socket is in neither active_connections nor
\* symbol_subscribers[symbol]; disconnect on a socket that was registered and
\* has been removed raises nothing and changes nothing.
C28_HandlerEndsCleanly ==
    /\ \A w \in StreamSockets :
         obj.hpc[w] \in {"returned", "raised"} =>
             /\ obj.hpc[w] = "returned"
             /\ Unregistered(obj.mgr, w, obj.hsym[w][1])
    /\ \A w \in StreamSockets :
         (obj.hsym[w] # None /\ Unregistered(obj.mgr, w, obj.hsym[w][1])) =>
             disconnect(obj.mgr, w, obj.hsym[w][1]) = [raised |-> "", mgr |-> obj.mgr]

\* C28: a handler has ended on WebSocketDisconnect
C28_EndedOnDisconnect ==
    \E w \in StreamSockets :
        /\ obj.hpc[w] \in {"returned", "raised"}
        /\ obj.left_by[w] = "WebSocketDisconnect"

-----------------------------------------------------------------------------
(* C29: the indicator rows POST /compute writes *)

\* a second compute call right after a compute call adds no indicator row
SecondComputeAddsNothing(store, symbol) ==
    LET once == compute_analytics_db(store, symbol)
    IN  compute_analytics_db(once, symbol).technical_indicators
            = once.technical_indicators

\* C29: after any sequence of calls, the technical_indicators rows written
\* by compute hold at most one row per (symbol, timestamp), and a second
\* compute call with no new bars in between adds no row.
C29_ComputeWritesOneRowPerTimestamp ==
    /\ \A symbol \in ApiSymbols :
         \A t \in DOMAIN obj.by_compute[symbol] : obj.by_compute[symbol][t] <= 1
    /\ \A symbol \in ApiSymbols : SecondComputeAddsNothing(obj, symbol)

\* C29: a compute call has answered 200 and written indicator rows
C29_ComputeWroteIndicators ==
    /\ out # None
    /\ args[1].endpoint = "compute"
    /\ out[1].status = 200
    /\ CountRows(obj.by_compute[args[1].symbol]) > 0

-----------------------------------------------------------------------------
(* C30: the bars POST /compute reads *)

\* C30: a compute call that answers 200 has processed the stored bars of the
\* symbol up to 1000 of them, the bar with the greatest timestamp among
\* them, and the collapse_field row it adds carries that greatest timestamp.
C30_ComputeReadsMostRecentBars ==
    (out # None /\ args[1].endpoint = "compute" /\ out[1].status = 200) =>
        LET symbol == args[1].symbol
            stored == hist[1].market_bars[symbol]
            newest == LatestOf(stored)[1]
        IN  /\ out[1].bars_processed = Min2(CountRows(stored), compute_limit)
            /\ out[1].newest_processed = newest
            /\ out[1].collapse_timestamp = newest
            /\ obj.collapse_field[symbol][newest]
                   = hist[1].collapse_field[symbol][newest] + 1

\* C30: a compute call has answered 200 with more than a thousand bars stored
C30_ComputedOverMoreThanLimit ==
    /\ out # None
    /\ args[1].endpoint = "compute"
    /\ out[1].status = 200
    /\ CountRows(hist[1].market_bars[args[1].symbol]) > compute_limit

====
